---- MODULE Spec2Model ----
(***************************************************************************)
(* A model of the sacre_dieu chess engine: the board (mailbox + bitboards), *)
(* move generation, make_move, Zobrist hashing, perft, the static exchange  *)
(* evaluator, the transposition table, the alpha-beta search with its       *)
(* iterative-deepening driver and the two-thread UCI front end.             *)
(*                                                                          *)
(* A Bitboard (a u64 with bit k standing for tile k) is modelled by the set *)
(* of tiles whose bit is set; |, &, ! are union, intersection, complement.  *)
(* A Tile {rank, file} is modelled by its index rank*8+file.                *)
(***************************************************************************)
EXTENDS Integers, Sequences, FiniteSets, TLC

\* ------------------------------------------------------------------------
\* utils/piece.rs : tiles, colours, piece types
\* ------------------------------------------------------------------------

Tiles == 0 .. 63

\* Option<Tile>::None
NoTile == 64

Rank(t) == t \div 8

File(t) == t % 8

\* Tile::new : None when rank > 7 or file > 7 (a negative i8 cast to u8 is > 7)
TileNew(rank, file) ==
    IF rank < 0 \/ rank > 7 \/ file < 0 \/ file > 7 THEN NoTile ELSE rank * 8 + file

\* Tile::transform
transform(t, offset_rank, offset_file) ==
    TileNew(Rank(t) + offset_rank, File(t) + offset_file)

\* PieceColor::to_index
ColorIndex(c) == IF c = "White" THEN 0 ELSE 1

\* impl Not for PieceColor
Opposite(c) == IF c = "White" THEN "Black" ELSE "White"

PieceTypes == <<"Pawn", "Knight", "Bishop", "Rook", "Queen", "King">>

\* PieceType::to_index
PieceTypeIndex(pt) ==
    CASE pt = "Pawn" -> 2
      [] pt = "Knight" -> 3
      [] pt = "Bishop" -> 4
      [] pt = "Rook" -> 5
      [] pt = "Queen" -> 6
      [] pt = "King" -> 7

\* `piece_type as usize` : the position of the variant in the enum
PieceTypeOrdinal(pt) == PieceTypeIndex(pt) - 2

\* Option<Piece>::None in the mailbox
NoPiece == [piece_type |-> "None", piece_color |-> "None"]

\* Piece::new
Piece(pt, c) == [piece_type |-> pt, piece_color |-> c]

\* `rights as usize` for CastleRights {None, QueenSide, KingSide, Both}
CastleRightsOrdinal(r) ==
    CASE r = "None" -> 0
      [] r = "QueenSide" -> 1
      [] r = "KingSide" -> 2
      [] r = "Both" -> 3

\* ------------------------------------------------------------------------
\* utils/consts.rs : attack masks.  The four leaper tables are the sets
\* below (bit k of the u64 constant = tile k in the set); the two sliding
\* tables are indexed through the magic entries and hold, for a tile and an
\* occupancy, the tiles of each ray up to and including the first blocker.
\* ------------------------------------------------------------------------

OnBoard(S) == S \ {NoTile}

KNIGHT_MASKS ==
    [t \in Tiles |-> OnBoard({transform(t, d[1], d[2]) :
        d \in {<<1, 2>>, <<2, 1>>, <<-1, 2>>, <<-2, 1>>,
               <<1, -2>>, <<2, -1>>, <<-1, -2>>, <<-2, -1>>}})]

KING_MASKS ==
    [t \in Tiles |-> OnBoard({transform(t, d[1], d[2]) :
        d \in {<<1, 0>>, <<1, 1>>, <<0, 1>>, <<-1, 1>>,
               <<-1, 0>>, <<-1, -1>>, <<0, -1>>, <<1, -1>>}})]

\* (movement, captures); the movement mask holds the double step on every rank
WHITE_PAWN_MASK ==
    [t \in Tiles |-> <<OnBoard({transform(t, 1, 0), transform(t, 2, 0)}),
                       OnBoard({transform(t, 1, 1), transform(t, 1, -1)})>>]

BLACK_PAWN_MASK ==
    [t \in Tiles |-> <<OnBoard({transform(t, -1, 0), transform(t, -2, 0)}),
                       OnBoard({transform(t, -1, 1), transform(t, -1, -1)})>>]

RookDirs == <<<<1, 0>>, <<-1, 0>>, <<0, 1>>, <<0, -1>>>>

BishopDirs == <<<<1, 1>>, <<1, -1>>, <<-1, 1>>, <<-1, -1>>>>

\* the tiles of the ray leaving t in direction d, nearest first
Ray(t, d) ==
    LET n == Cardinality({k \in 1 .. 7 : transform(t, k * d[1], k * d[2]) # NoTile})
    IN  [k \in 1 .. n |-> transform(t, k * d[1], k * d[2])]

RookRays == [t \in Tiles |-> [i \in 1 .. 4 |-> Ray(t, RookDirs[i])]]

BishopRays == [t \in Tiles |-> [i \in 1 .. 4 |-> Ray(t, BishopDirs[i])]]

\* the tiles of a ray up to and including the first occupied one
Visible(ray, occ) ==
    {ray[k] : k \in {k \in 1 .. Len(ray) : \A j \in 1 .. k - 1 : ray[j] \notin occ}}

\* get_rook_mask(Board::generate_magic_index(&ROOK_MAGICS[t], &occ))
get_rook_mask(t, occ) == UNION {Visible(RookRays[t][i], occ) : i \in 1 .. 4}

\* get_bishop_mask(Board::generate_magic_index(&BISHOP_MAGICS[t], &occ))
get_bishop_mask(t, occ) == UNION {Visible(BishopRays[t][i], occ) : i \in 1 .. 4}

\* ------------------------------------------------------------------------
\* utils/board.rs : Bitboard and Board accessors
\* ------------------------------------------------------------------------

set_bit(bb, t) == bb \cup {t}

clear_bit(bb, t) == bb \ {t}

get_bit(bb, t) == t \in bb

\* Bitboard::pop_lsb : the tile of the lowest set bit
pop_lsb(bb) == CHOOSE t \in bb : \A u \in bb : t <= u

occupied(b) == b.piece_bitboard[0] \cup b.piece_bitboard[1]

color(b, c) == b.piece_bitboard[ColorIndex(c)]

piece(b, pt) == b.piece_bitboard[PieceTypeIndex(pt)]

colored_piece(b, pt, c) == piece(b, pt) \cap color(b, c)

\* Tile::colored_attackers
colored_attackers(t, b, enemy_side) ==
    LET enemy_bishops == colored_piece(b, "Bishop", enemy_side) \cup colored_piece(b, "Queen", enemy_side)
        enemy_rooks == colored_piece(b, "Rook", enemy_side) \cup colored_piece(b, "Queen", enemy_side)
        pawn_mask == IF enemy_side = "White" THEN BLACK_PAWN_MASK[t][2] ELSE WHITE_PAWN_MASK[t][2]
    IN  (pawn_mask \cap colored_piece(b, "Pawn", enemy_side))
        \cup (KNIGHT_MASKS[t] \cap colored_piece(b, "Knight", enemy_side))
        \cup (get_bishop_mask(t, occupied(b)) \cap enemy_bishops)
        \cup (get_rook_mask(t, occupied(b)) \cap enemy_rooks)
        \cup (KING_MASKS[t] \cap colored_piece(b, "King", enemy_side))

\* Tile::attackers : attackers of either colour under a given occupancy
attackers(t, b, occ) ==
    LET bishops == piece(b, "Bishop") \cup piece(b, "Queen")
        rooks == piece(b, "Rook") \cup piece(b, "Queen")
    IN  (BLACK_PAWN_MASK[t][2] \cap colored_piece(b, "Pawn", "White"))
        \cup (WHITE_PAWN_MASK[t][2] \cap colored_piece(b, "Pawn", "Black"))
        \cup (KNIGHT_MASKS[t] \cap piece(b, "Knight"))
        \cup (get_bishop_mask(t, occ) \cap bishops)
        \cup (get_rook_mask(t, occ) \cap rooks)
        \cup (KING_MASKS[t] \cap piece(b, "King"))

is_under_attack(t, b, enemy_side) == colored_attackers(t, b, enemy_side) # {}

\* an in_check that looks at pawns, knights and the king only
in_check_leapers(b, c) ==
    LET t == pop_lsb(colored_piece(b, "King", c))
        enemy_side == Opposite(c)
        pawn_mask == IF enemy_side = "White" THEN BLACK_PAWN_MASK[t][2] ELSE WHITE_PAWN_MASK[t][2]
    IN  \/ pawn_mask \cap colored_piece(b, "Pawn", enemy_side) # {}
        \/ KNIGHT_MASKS[t] \cap colored_piece(b, "Knight", enemy_side) # {}
        \/ KING_MASKS[t] \cap colored_piece(b, "King", enemy_side) # {}

\* Board::in_check
in_check(b, c) == is_under_attack(pop_lsb(colored_piece(b, "King", c)), b, Opposite(c))

\* ------------------------------------------------------------------------
\* utils/piece.rs : pseudo-legal move generation.  A MoveArray is modelled
\* by the set of its moves: no generator pushes the same move twice, and
\* nothing below depends on the order.
\* ------------------------------------------------------------------------

\* Move::new
Move(initial, end, flags) == [initial |-> initial, end |-> end, flags |-> flags]

NoMove == [initial |-> NoTile, end |-> NoTile, flags |-> "None"]

Promotions == {"KnightPromotion", "BishopPromotion", "RookPromotion", "QueenPromotion"}

\* the loop shared by the knight, bishop, rook and king generators
push_targets(b, tile_start, mask, qsearch) ==
    {Move(tile_start, tile_end, "None") :
        tile_end \in {e \in mask : ~(qsearch /\ b.board[e] = NoPiece)}}

generate_pawn_moves(b, tile_start, piece_color, qsearch) ==
    LET direction == IF piece_color = "White" THEN 1 ELSE -1
        masks == IF piece_color = "White" THEN WHITE_PAWN_MASK[tile_start]
                                          ELSE BLACK_PAWN_MASK[tile_start]
        single_push_tile == transform(tile_start, direction, 0)
        double_push_tile == transform(tile_start, 2 * direction, 0)
        start_rank == IF piece_color = "White" THEN 1 ELSE 6
        is_double_push_invalid ==
            Rank(tile_start) # start_rank \/ get_bit(occupied(b), double_push_tile)
        movement1 == IF double_push_tile # NoTile /\ is_double_push_invalid
                     THEN clear_bit(masks[1], double_push_tile) ELSE masks[1]
        movement == IF single_push_tile # NoTile /\ get_bit(occupied(b), single_push_tile)
                    THEN clear_bit(clear_bit(movement1, single_push_tile), double_push_tile)
                    ELSE movement1
        ep == b.en_passant
        ep_hit == ep # NoTile /\ (transform(tile_start, direction, 1) = ep
                                  \/ transform(tile_start, direction, -1) = ep)
        en_passant == IF ep_hit THEN ep ELSE NoTile
        captures == (masks[2] \cap color(b, Opposite(piece_color)))
                    \cup (IF ep_hit THEN {ep} ELSE {})
        last_rank == IF piece_color = "White" THEN 7 ELSE 0
        for_end(tile_end) ==
            IF tile_end = en_passant THEN {Move(tile_start, tile_end, "EnPassant")}
            ELSE IF Rank(tile_end) = last_rank
                 THEN {Move(tile_start, tile_end, f) : f \in Promotions}
            ELSE IF qsearch /\ b.board[tile_end] = NoPiece THEN {}
            ELSE IF tile_end = double_push_tile
                 THEN {Move(tile_start, tile_end, "DoublePush")}
            ELSE {Move(tile_start, tile_end, "None")}
    IN  UNION {for_end(tile_end) : tile_end \in movement \cup captures}

\* a knight generator that keeps the moves to empty tiles in captures-only mode
generate_knight_moves_unfiltered(b, tile_start, piece_color, qsearch) ==
    push_targets(b, tile_start, KNIGHT_MASKS[tile_start] \ color(b, piece_color), FALSE)

generate_knight_moves(b, tile_start, piece_color, qsearch) ==
    push_targets(b, tile_start, KNIGHT_MASKS[tile_start] \ color(b, piece_color), qsearch)

generate_rook_moves(b, tile_start, piece_color, qsearch) ==
    push_targets(b, tile_start,
                 get_rook_mask(tile_start, occupied(b)) \ color(b, piece_color), qsearch)

generate_bishop_moves(b, tile_start, piece_color, qsearch) ==
    push_targets(b, tile_start,
                 get_bishop_mask(tile_start, occupied(b)) \ color(b, piece_color), qsearch)

\* a king-side block that does not look at the attackers of the tile the king
\* crosses
castle_king_side_crossing_unchecked(b, tile_start, piece_color, qsearch) ==
    LET first_tile == transform(tile_start, 0, 1)
        second_tile == transform(tile_start, 0, 2)
        can_castle ==
            ~(is_under_attack(tile_start, b, Opposite(piece_color))
              \/ get_bit(occupied(b), first_tile)
              \/ is_under_attack(second_tile, b, Opposite(piece_color))
              \/ get_bit(occupied(b), second_tile))
    IN  IF first_tile # NoTile /\ second_tile # NoTile /\ can_castle /\ ~qsearch
        THEN {Move(tile_start, second_tile, "Castling")} ELSE {}

\* the king-side block of generate_king_moves
castle_king_side(b, tile_start, piece_color, qsearch) ==
    LET first_tile == transform(tile_start, 0, 1)
        second_tile == transform(tile_start, 0, 2)
        can_castle ==
            ~(is_under_attack(tile_start, b, Opposite(piece_color))
              \/ is_under_attack(first_tile, b, Opposite(piece_color))
              \/ get_bit(occupied(b), first_tile)
              \/ is_under_attack(second_tile, b, Opposite(piece_color))
              \/ get_bit(occupied(b), second_tile))
    IN  IF first_tile # NoTile /\ second_tile # NoTile /\ can_castle /\ ~qsearch
        THEN {Move(tile_start, second_tile, "Castling")} ELSE {}

\* the queen-side block of generate_king_moves
castle_queen_side(b, tile_start, piece_color, qsearch) ==
    LET first_tile == transform(tile_start, 0, -1)
        second_tile == transform(tile_start, 0, -2)
        third_tile == transform(tile_start, 0, -3)
        can_castle ==
            ~(is_under_attack(tile_start, b, Opposite(piece_color))
              \/ is_under_attack(first_tile, b, Opposite(piece_color))
              \/ get_bit(occupied(b), first_tile)
              \/ is_under_attack(second_tile, b, Opposite(piece_color))
              \/ get_bit(occupied(b), second_tile)
              \/ get_bit(occupied(b), third_tile))
    IN  IF first_tile # NoTile /\ second_tile # NoTile /\ third_tile # NoTile
           /\ can_castle /\ ~qsearch
        THEN {Move(tile_start, second_tile, "Castling")} ELSE {}

generate_king_moves(b, tile_start, piece_color, qsearch) ==
    LET rights == b.castle_rights[ColorIndex(piece_color)]
        castles ==
            CASE rights = "KingSide" -> castle_king_side(b, tile_start, piece_color, qsearch)
              [] rights = "QueenSide" -> castle_queen_side(b, tile_start, piece_color, qsearch)
              [] rights = "Both" -> castle_king_side(b, tile_start, piece_color, qsearch)
                                    \cup castle_queen_side(b, tile_start, piece_color, qsearch)
              [] rights = "None" -> {}
    IN  castles \cup push_targets(b, tile_start,
                                  KING_MASKS[tile_start] \ color(b, piece_color), qsearch)

\* Piece::generate_moves
piece_generate_moves(p, b, tile_start, qsearch) ==
    CASE p.piece_type = "Pawn" -> generate_pawn_moves(b, tile_start, p.piece_color, qsearch)
      [] p.piece_type = "Knight" -> generate_knight_moves(b, tile_start, p.piece_color, qsearch)
      [] p.piece_type = "Bishop" -> generate_bishop_moves(b, tile_start, p.piece_color, qsearch)
      [] p.piece_type = "Rook" -> generate_rook_moves(b, tile_start, p.piece_color, qsearch)
      [] p.piece_type = "Queen" -> generate_bishop_moves(b, tile_start, p.piece_color, qsearch)
                                   \cup generate_rook_moves(b, tile_start, p.piece_color, qsearch)
      [] p.piece_type = "King" -> generate_king_moves(b, tile_start, p.piece_color, qsearch)

\* Board::generate_moves
generate_moves(b, qsearch) ==
    UNION {piece_generate_moves(b.board[square], b, square, qsearch) :
        square \in {s \in Tiles : b.board[s] # NoPiece
                                  /\ b.board[s].piece_color = b.side_to_move}}

\* ------------------------------------------------------------------------
\* utils/board.rs : Board::new (FEN) and Board::make_move
\* ------------------------------------------------------------------------

\* Board::default
BoardDefault ==
    [piece_bitboard |-> [i \in 0 .. 7 |-> {}],
     board |-> [t \in Tiles |-> NoPiece],
     castle_rights |-> [i \in 0 .. 1 |-> "None"],
     side_to_move |-> "White",
     en_passant |-> NoTile]

Digits == [c \in {"1", "2", "3", "4", "5", "6", "7", "8"} |->
              CASE c = "1" -> 1 [] c = "2" -> 2 [] c = "3" -> 3 [] c = "4" -> 4
                [] c = "5" -> 5 [] c = "6" -> 6 [] c = "7" -> 7 [] c = "8" -> 8]

\* PIECE_MAP and char::is_uppercase
PIECE_MAP ==
    [c \in {"p", "n", "b", "r", "q", "k", "P", "N", "B", "R", "Q", "K"} |->
        CASE c \in {"p", "P"} -> "Pawn" [] c \in {"n", "N"} -> "Knight"
          [] c \in {"b", "B"} -> "Bishop" [] c \in {"r", "R"} -> "Rook"
          [] c \in {"q", "Q"} -> "Queen" [] c \in {"k", "K"} -> "King"]

IsUpper(c) == c \in {"P", "N", "B", "R", "Q", "K"}

FileLetters == [c \in {"a", "b", "c", "d", "e", "f", "g", "h"} |->
                   CASE c = "a" -> 0 [] c = "b" -> 1 [] c = "c" -> 2 [] c = "d" -> 3
                     [] c = "e" -> 4 [] c = "f" -> 5 [] c = "g" -> 6 [] c = "h" -> 7]

\* The placement loop of Board::new walks the chars of the first FEN token
\* with a running (rank, file): rank starts at 7 and drops at each "/",
\* file restarts at 0 after a "/" and advances by a digit's value or by 1
\* for a piece.  fen_rank and fen_file are the loop's (rank, file) on
\* reaching char i.
fen_rank(chars, i) == 7 - Cardinality({j \in 1 .. i - 1 : chars[j] = "/"})

RECURSIVE fen_file(_, _)
fen_file(chars, i) ==
    IF i = 1 \/ chars[i - 1] = "/" THEN 0
    ELSE fen_file(chars, i - 1)
         + (IF chars[i - 1] \in DOMAIN Digits THEN Digits[chars[i - 1]] ELSE 1)

place_pieces(chars) ==
    LET at == {i \in 1 .. Len(chars) : chars[i] \in DOMAIN PIECE_MAP}
        tile(i) == TileNew(fen_rank(chars, i), fen_file(chars, i))
        piece_at(i) == Piece(PIECE_MAP[chars[i]], IF IsUpper(chars[i]) THEN "White" ELSE "Black")
        on(t) == {i \in at : tile(i) = t}
        \* a later char overwrites the mailbox entry of an earlier one
        last(t) == CHOOSE i \in on(t) : \A j \in on(t) : j <= i
    IN  [BoardDefault EXCEPT
            !.board = [t \in Tiles |-> IF on(t) = {} THEN NoPiece ELSE piece_at(last(t))],
            !.piece_bitboard = [k \in 0 .. 7 |->
                {tile(i) : i \in {i \in at : PieceTypeIndex(piece_at(i).piece_type) = k
                                             \/ ColorIndex(piece_at(i).piece_color) = k}}]]

\* the castling token of Board::new for one colour
fen_castle_rights(token, king_side, queen_side) ==
    CASE king_side \in token /\ queen_side \in token -> "Both"
      [] king_side \in token /\ queen_side \notin token -> "KingSide"
      [] king_side \notin token /\ queen_side \in token -> "QueenSide"
      [] OTHER -> "None"

\* Tile::from_code on a two-character code <<file letter, rank digit>>
from_code(code) == TileNew(Digits[code[2]] - 1, FileLetters[code[1]])

\* Tile::is_code_valid
is_code_valid(code) == Len(code) = 2 /\ code[2] \in DOMAIN Digits

\* Board::new.  A FEN is [pieces: sequence of chars, side: "w"/"b",
\* castle_rights: set of the letters present, en_passant: sequence of chars].
BoardNew(fen) ==
    LET placed == place_pieces(fen.pieces)
    IN  [placed EXCEPT
            !.side_to_move = IF fen.side = "w" THEN "White" ELSE "Black",
            !.castle_rights = [i \in 0 .. 1 |->
                IF i = 0 THEN fen_castle_rights(fen.castle_rights, "K", "Q")
                         ELSE fen_castle_rights(fen.castle_rights, "k", "q")],
            !.en_passant = IF is_code_valid(fen.en_passant)
                           THEN from_code(fen.en_passant) ELSE NoTile]

\* the rights left to a colour once the rook of the given file is gone
rights_without(rights, file) ==
    IF file = 0 THEN (IF rights = "QueenSide" THEN "None" ELSE "KingSide")
    ELSE IF file = 7 THEN (IF rights = "KingSide" THEN "None" ELSE "QueenSide")
    ELSE rights

\* make_move up to the match on the move's flags: bitboards, mailbox and
\* castling rights for the moving and the captured piece, en_passant cleared
move_piece(b, piece_move) ==
    LET initial_piece == b.board[piece_move.initial]
        end_piece == b.board[piece_move.end]
        ti == PieceTypeIndex(initial_piece.piece_type)
        ci == ColorIndex(initial_piece.piece_color)
        bb0 == IF end_piece # NoPiece
               THEN [b.piece_bitboard EXCEPT
                        ![PieceTypeIndex(end_piece.piece_type)] = clear_bit(@, piece_move.end),
                        ![ColorIndex(end_piece.piece_color)] = clear_bit(@, piece_move.end)]
               ELSE b.piece_bitboard
        bb1 == [bb0 EXCEPT ![ti] = set_bit(clear_bit(@, piece_move.initial), piece_move.end),
                           ![ci] = set_bit(clear_bit(@, piece_move.initial), piece_move.end)]
        mailbox == [[b.board EXCEPT ![piece_move.initial] = NoPiece]
                       EXCEPT ![piece_move.end] = initial_piece]
        own == b.castle_rights[ci]
        cr1 == IF own # "None"
               THEN IF initial_piece.piece_type = "King"
                    THEN [b.castle_rights EXCEPT ![ci] = "None"]
                    ELSE IF initial_piece.piece_type = "Rook"
                         THEN [b.castle_rights EXCEPT
                                  ![ci] = rights_without(own, File(piece_move.initial))]
                         ELSE b.castle_rights
               ELSE b.castle_rights
        cr2 == IF end_piece # NoPiece /\ end_piece.piece_type = "Rook"
               THEN LET ei == ColorIndex(end_piece.piece_color)
                        correct_rank == IF end_piece.piece_color = "White" THEN 0 ELSE 7
                    IN  IF cr1[ei] # "None" /\ Rank(piece_move.end) = correct_rank
                        THEN [cr1 EXCEPT ![ei] = rights_without(@, File(piece_move.end))]
                        ELSE cr1
               ELSE cr1
    IN  [b EXCEPT !.piece_bitboard = bb1, !.board = mailbox,
                  !.castle_rights = cr2, !.en_passant = NoTile]

\* the Castling arm; the u8 subtraction end.file - initial.file wraps
castling_arm(board, piece_move, piece_color) ==
    LET king_side == ((File(piece_move.end) - File(piece_move.initial)) % 256) = 2
        home == IF piece_color = "White" THEN 0 ELSE 7
        old_rook_tile == TileNew(home, IF king_side THEN 7 ELSE 0)
        new_rook_tile == TileNew(home, IF king_side THEN 5 ELSE 3)
        ci == ColorIndex(piece_color)
    IN  [board EXCEPT
            !.castle_rights[ci] = "None",
            !.piece_bitboard[PieceTypeIndex("Rook")] = set_bit(clear_bit(@, old_rook_tile), new_rook_tile),
            !.piece_bitboard[ci] = set_bit(clear_bit(@, old_rook_tile), new_rook_tile),
            !.board = [[@ EXCEPT ![old_rook_tile] = NoPiece]
                          EXCEPT ![new_rook_tile] = Piece("Rook", piece_color)]]

\* an EnPassant arm that takes the captured pawn off the mailbox only
en_passant_arm_mailbox_only(board, piece_move, piece_color) ==
    LET direction == IF piece_color = "White" THEN -1 ELSE 1
        capture_position == transform(piece_move.end, direction, 0)
    IN  [board EXCEPT !.board[capture_position] = NoPiece]

\* the EnPassant arm: the captured pawn stands behind the destination
en_passant_arm(board, piece_move, piece_color) ==
    LET direction == IF piece_color = "White" THEN -1 ELSE 1
        capture_position == transform(piece_move.end, direction, 0)
        captured == board.board[capture_position]
    IN  [board EXCEPT
            !.piece_bitboard[PieceTypeIndex(captured.piece_type)] = clear_bit(@, capture_position),
            !.piece_bitboard[ColorIndex(captured.piece_color)] = clear_bit(@, capture_position),
            !.board[capture_position] = NoPiece]

\* Move::get_promotion_type
get_promotion_type(flags) ==
    CASE flags = "KnightPromotion" -> "Knight"
      [] flags = "BishopPromotion" -> "Bishop"
      [] flags = "RookPromotion" -> "Rook"
      [] flags = "QueenPromotion" -> "Queen"

\* the four promotion arms
promotion_arm(board, piece_move, initial_piece) ==
    LET promoted == get_promotion_type(piece_move.flags)
        cleared == [board.piece_bitboard EXCEPT
                       ![PieceTypeIndex(initial_piece.piece_type)] = clear_bit(@, piece_move.end)]
    IN  [board EXCEPT
            !.piece_bitboard = [cleared EXCEPT ![PieceTypeIndex(promoted)] = set_bit(@, piece_move.end)],
            !.board[piece_move.end] = Piece(promoted, initial_piece.piece_color)]

\* make_move before its final legality test: the board `board` of the code
\* at line 384, side_to_move still the mover's
moved_board(b, piece_move) ==
    LET initial_piece == b.board[piece_move.initial]
        board == move_piece(b, piece_move)
        flags == piece_move.flags
    IN  CASE flags = "DoublePush" ->
               [board EXCEPT !.en_passant =
                   transform(piece_move.end,
                             IF initial_piece.piece_color = "White" THEN -1 ELSE 1, 0)]
          [] flags = "EnPassant" -> en_passant_arm(board, piece_move, initial_piece.piece_color)
          [] flags = "Castling" -> castling_arm(board, piece_move, initial_piece.piece_color)
          [] flags \in Promotions -> promotion_arm(board, piece_move, initial_piece)
          [] flags = "None" -> board

\* Option<Board>::None
NoBoard == [BoardDefault EXCEPT !.side_to_move = "None"]

\* Board::make_move
make_move(b, piece_move) ==
    LET board == moved_board(b, piece_move)
    IN  IF in_check(board, board.side_to_move) THEN NoBoard
        ELSE [board EXCEPT !.side_to_move = Opposite(@)]

\* a perft that counts every generated move, accepted by make_move or not
RECURSIVE perft_pseudo_legal(_, _)
perft_pseudo_legal(b, depth) ==
    IF depth = 0 THEN 1
    ELSE LET moves == generate_moves(b, FALSE)
             RECURSIVE num_moves(_)
             num_moves(rest) ==
                 IF rest = {} THEN 0
                 ELSE LET piece_move == CHOOSE m \in rest : TRUE
                          board == [moved_board(b, piece_move) EXCEPT
                                       !.side_to_move = Opposite(@)]
                      IN  perft_pseudo_legal(board, depth - 1)
                          + num_moves(rest \ {piece_move})
         IN  num_moves(moves)

\* Board::perft: 1 at depth 0, else the sum of perft(depth - 1) over the
\* generated moves that make_move accepts
RECURSIVE perft(_, _)
perft(b, depth) ==
    IF depth = 0 THEN 1
    ELSE LET moves == generate_moves(b, FALSE)
             RECURSIVE num_moves(_)
             num_moves(rest) ==
                 IF rest = {} THEN 0
                 ELSE LET piece_move == CHOOSE m \in rest : TRUE
                          board == make_move(b, piece_move)
                      IN  (IF board = NoBoard THEN 0 ELSE perft(board, depth - 1))
                          + num_moves(rest \ {piece_move})
         IN  num_moves(moves)

\* ------------------------------------------------------------------------
\* utils/zobrist.rs.  A u64 hash is modelled by the set of key-table entries
\* XOR-ed into it an odd number of times (h ^ k is the symmetric difference):
\* two equal sets are equal hashes, and two sets that differ in one pair of
\* entries of one table are different hashes, the table's keys being
\* pairwise different constants.
\* ------------------------------------------------------------------------

xor(h, k) == (h \ k) \cup (k \ h)

\* Piece::zobrist_key : ZOBRIST_PIECE_KEYS[piece_index][tile_index]
piece_zobrist_key(p, tile_index) ==
    LET piece_index == ColorIndex(p.piece_color) + PieceTypeIndex(p.piece_type)
    IN  {<<"ZOBRIST_PIECE_KEYS", piece_index, tile_index>>}

\* ZOBRIST_CASTLING_KEYS[castle_rights[0] as usize + castle_rights[1] as usize]
castling_zobrist_key(b) ==
    {<<"ZOBRIST_CASTLING_KEYS",
       CastleRightsOrdinal(b.castle_rights[0]) + CastleRightsOrdinal(b.castle_rights[1]), 0>>}

\* the en-passant term of generate_zobrist_hash
en_passant_zobrist_key(b) ==
    IF b.en_passant # NoTile
    THEN {<<"ZOBRIST_EN_PASSANT_KEYS", Rank(b.en_passant) + 1, 0>>}
    ELSE {<<"ZOBRIST_EN_PASSANT_KEYS", 0, 0>>}

ZOBRIST_SIDE_TO_MOVE == {<<"ZOBRIST_SIDE_TO_MOVE", 0, 0>>}

\* the mailbox loop of generate_zobrist_hash: the keys of different tiles
\* are different table entries, so their XOR is their union
hash_pieces(b) ==
    UNION {piece_zobrist_key(b.board[i], i) : i \in {i \in Tiles : b.board[i] # NoPiece}}

generate_zobrist_hash(b) ==
    LET h1 == hash_pieces(b)
        h2 == xor(h1, castling_zobrist_key(b))
        h3 == xor(h2, en_passant_zobrist_key(b))
    IN  IF b.side_to_move = "Black" THEN xor(h3, ZOBRIST_SIDE_TO_MOVE) ELSE h3

\* The incremental key update of make_move (the revision of Board that keeps
\* a zobrist_key field): XOR the piece-square keys of the removed and added
\* pieces, the castling key of the old and of the new rights, the old and
\* the new en-passant FILE key (entry 0: no en-passant tile), the side key.
en_passant_file_key(ep) ==
    IF ep # NoTile THEN {<<"ZOBRIST_EN_PASSANT_KEYS", File(ep) + 1, 0>>}
                   ELSE {<<"ZOBRIST_EN_PASSANT_KEYS", 0, 0>>}

piece_key_or_zero(p, i) == IF p = NoPiece THEN {} ELSE piece_zobrist_key(p, i)

xor_changed_tiles(old, new) ==
    UNION {xor(piece_key_or_zero(old.board[i], i), piece_key_or_zero(new.board[i], i)) :
        i \in {i \in Tiles : old.board[i] # new.board[i]}}

update_zobrist_key(key, old, new) ==
    LET h1 == xor(key, xor_changed_tiles(old, new))
        h2 == xor(xor(h1, castling_zobrist_key(old)), castling_zobrist_key(new))
        h3 == xor(xor(h2, en_passant_file_key(old.en_passant)),
                  en_passant_file_key(new.en_passant))
    IN  xor(h3, ZOBRIST_SIDE_TO_MOVE)

\* ------------------------------------------------------------------------
\* utils/piece_move.rs : static exchange evaluation
\* ------------------------------------------------------------------------

PAWN_VALUE == 100

KNIGHT_VALUE == 300

BISHOP_VALUE == 320

ROOK_VALUE == 500

QUEEN_VALUE == 900

KING_VALUE == 0

\* MoveSorter::SEE_VALUES, indexed by `piece_type as usize`
SEE_VALUES ==
    <<PAWN_VALUE, KNIGHT_VALUE, BISHOP_VALUE, ROOK_VALUE, QUEEN_VALUE, KING_VALUE>>

see_value(pt) == SEE_VALUES[PieceTypeOrdinal(pt) + 1]

\* MoveSorter::capture_move_value
capture_move_value(b, piece_move) ==
    LET value == IF b.board[piece_move.end] # NoPiece
                 THEN see_value(b.board[piece_move.end].piece_type) ELSE 0
    IN  IF piece_move.flags = "EnPassant" THEN see_value("Pawn")
        ELSE IF piece_move.flags \in Promotions
             THEN value + see_value(get_promotion_type(piece_move.flags)) - see_value("Pawn")
             ELSE value

\* the `for piece_type in PieceType::iter()` scan: the cheapest attacking type
cheapest_attacker(b, colored) ==
    LET i == CHOOSE i \in 1 .. 6 :
                 /\ colored \cap piece(b, PieceTypes[i]) # {}
                 /\ \A j \in 1 .. i - 1 : colored \cap piece(b, PieceTypes[j]) = {}
    IN  PieceTypes[i]

\* the exchange loop of static_exchange_evaluation; its value is `color` at
\* the loop's exit
RECURSIVE see_loop(_, _, _, _, _, _)
see_loop(b, end, occ, att, col, balance) ==
    LET colored == att \cap color(b, col) IN
    IF colored = {} THEN col
    ELSE LET next_victim == cheapest_attacker(b, colored)
             occ1 == clear_bit(occ, pop_lsb(colored \cap piece(b, next_victim)))
             diagonals == piece(b, "Bishop") \cup piece(b, "Queen")
             orthogonals == piece(b, "Rook") \cup piece(b, "Queen")
             att1 == IF next_victim \in {"Pawn", "Bishop", "Queen"}
                     THEN att \cup (get_bishop_mask(end, occ1) \cap diagonals) ELSE att
             att2 == IF next_victim \in {"Rook", "Queen"}
                     THEN att1 \cup (get_rook_mask(end, occ1) \cap orthogonals) ELSE att1
             att3 == att2 \cap occ1
             col1 == Opposite(col)
             balance1 == (0 - balance) - 1 - see_value(next_victim)
         IN  IF balance1 >= 0
             THEN IF next_victim = "King" /\ att3 \cap color(b, col1) # {}
                  THEN Opposite(col1) ELSE col1
             ELSE see_loop(b, end, occ1, att3, col1, balance1)

\* the rolling occupancy of static_exchange_evaluation when the attackers of
\* the destination are first computed
see_occupied(b, piece_move) ==
    LET occ0 == set_bit(clear_bit(occupied(b), piece_move.initial), piece_move.end)
    IN  IF piece_move.flags = "EnPassant" THEN set_bit(occ0, b.en_passant) ELSE occ0

\* MoveSorter::static_exchange_evaluation
static_exchange_evaluation(b, piece_move, threshold) ==
    LET next_victim == IF piece_move.flags \in Promotions
                       THEN get_promotion_type(piece_move.flags)
                       ELSE b.board[piece_move.initial].piece_type
        balance0 == capture_move_value(b, piece_move) - threshold
        balance1 == balance0 - see_value(next_victim)
        occ == see_occupied(b, piece_move)
    IN  IF balance0 < 0 THEN FALSE
        ELSE IF balance1 >= 0 THEN TRUE
        ELSE b.side_to_move #
                 see_loop(b, piece_move.end, occ, attackers(piece_move.end, b, occ),
                          Opposite(b.side_to_move), balance1)

GOOD_CAPTURE == 20000000

BAD_CAPTURE == 0

\* the threshold score_move passes to static_exchange_evaluation
SEE_THRESHOLD == -108

\* PieceType::get_value
get_value(pt) ==
    CASE pt = "Pawn" -> PAWN_VALUE
      [] pt = "Knight" -> KNIGHT_VALUE
      [] pt = "Bishop" -> BISHOP_VALUE
      [] pt = "Rook" -> ROOK_VALUE
      [] pt = "Queen" -> QUEEN_VALUE
      [] pt = "King" -> KING_VALUE

\* MoveSorter::score_move on a move that is not the hash move and is not
\* quiet: the capture branch when the destination holds a piece, and the
\* final 0 for an en-passant capture, whose destination is empty
score_capture(b, piece_move) ==
    LET end_piece == b.board[piece_move.end]
        initial_piece == b.board[piece_move.initial]
        mvv_lva == 100 * get_value(end_piece.piece_type) - get_value(initial_piece.piece_type)
        capture_bucket == IF static_exchange_evaluation(b, piece_move, SEE_THRESHOLD)
                          THEN GOOD_CAPTURE ELSE BAD_CAPTURE
    IN  IF end_piece # NoPiece THEN capture_bucket + mvv_lva ELSE 0

\* ------------------------------------------------------------------------
\* utils/transposition_table.rs.  A Zobrist key is a u64; the table is
\* modelled with keys of KeyBits bits, the index being the high part of the
\* double-width product key * buckets as in the code.
\* ------------------------------------------------------------------------

\* width of a key in bits
KeyBits == 4

Keys == 0 .. (2 ^ KeyBits - 1)

\* Option<TTEntry>::None
NoEntry ==
    [zobrist_key |-> -1, depth |-> 0, evaluation |-> 0, evaluation_type |-> "None",
     best_move |-> NoMove]

\* TTEntry { zobrist_key, depth, evaluation, evaluation_type, best_move }
TTEntry(zobrist_key, depth, evaluation, evaluation_type, best_move) ==
    [zobrist_key |-> zobrist_key, depth |-> depth, evaluation |-> evaluation,
     evaluation_type |-> evaluation_type, best_move |-> best_move]

\* TranspositionTable::new
tt_new(buckets) == [buckets |-> buckets, table |-> [i \in 0 .. buckets - 1 |-> NoEntry]]

\* TranspositionTable::index : ((key as u128).wrapping_mul(buckets as u128) >> 64) as usize
tt_index(tt, key) == ((key * tt.buckets) % (2 ^ (2 * KeyBits))) \div (2 ^ KeyBits)

\* TranspositionTable::get
tt_get(tt, key) ==
    LET entry == tt.table[tt_index(tt, key)]
    IN  IF entry # NoEntry /\ entry.zobrist_key = key THEN entry ELSE NoEntry

\* a store that keeps the occupant of the slot when it is deeper
tt_store_keep_deeper(tt, key, entry) ==
    IF tt.table[tt_index(tt, key)].depth > entry.depth THEN tt
    ELSE [tt EXCEPT !.table[tt_index(tt, key)] = entry]

\* TranspositionTable::store
tt_store(tt, key, entry) == [tt EXCEPT !.table[tt_index(tt, key)] = entry]

\* TranspositionTable::clear
tt_clear(tt) == [tt EXCEPT !.table = [i \in DOMAIN tt.table |-> NoEntry]]

\* ------------------------------------------------------------------------
\* Positions.  A FEN is given by its fields: the piece placement as a
\* sequence of characters, the side letter, the castling letters and the
\* characters of the en-passant field.
\* ------------------------------------------------------------------------

\* rnbqkbnr/pppppppp/8/8/8/8/PPPPPPPP/RNBQKBNR w KQkq - 0 1
FenStart ==
    [pieces |-> <<"r", "n", "b", "q", "k", "b", "n", "r", "/", "p", "p", "p", "p", "p", "p", "p", "p", "/", "8", "/", "8", "/", "8", "/", "8", "/", "P", "P", "P", "P", "P", "P", "P", "P", "/", "R", "N", "B", "Q", "K", "B", "N", "R">>,
     side |-> "w", castle_rights |-> {"K", "Q", "k", "q"}, en_passant |-> <<"-">>]

\* r3k2r/p1ppqpb1/bn2pnp1/3PN3/1p2P3/2N2Q1p/PPPBBPPP/R3K2R w KQkq - 0 1
FenKiwipete ==
    [pieces |-> <<"r", "3", "k", "2", "r", "/", "p", "1", "p", "p", "q", "p", "b", "1", "/", "b", "n", "2", "p", "n", "p", "1", "/", "3", "P", "N", "3", "/", "1", "p", "2", "P", "3", "/", "2", "N", "2", "Q", "1", "p", "/", "P", "P", "P", "B", "B", "P", "P", "P", "/", "R", "3", "K", "2", "R">>,
     side |-> "w", castle_rights |-> {"K", "Q", "k", "q"}, en_passant |-> <<"-">>]

\* r3k2r/8/8/8/8/8/8/R3K2R w KQkq - 0 1
FenCastle ==
    [pieces |-> <<"r", "3", "k", "2", "r", "/", "8", "/", "8", "/", "8", "/", "8", "/", "8", "/", "8", "/", "R", "3", "K", "2", "R">>,
     side |-> "w", castle_rights |-> {"K", "Q", "k", "q"}, en_passant |-> <<"-">>]

\* 8/Pk6/8/8/8/8/6Kp/8 w - - 0 1
FenPromotion ==
    [pieces |-> <<"8", "/", "P", "k", "6", "/", "8", "/", "8", "/", "8", "/", "8", "/", "6", "K", "p", "/", "8">>,
     side |-> "w", castle_rights |-> {}, en_passant |-> <<"-">>]

\* n1n5/PPPk4/8/8/8/8/4Kppp/5N1N w - - 0 1
FenPromotionCapture ==
    [pieces |-> <<"n", "1", "n", "5", "/", "P", "P", "P", "k", "4", "/", "8", "/", "8", "/", "8", "/", "8", "/", "4", "K", "p", "p", "p", "/", "5", "N", "1", "N">>,
     side |-> "w", castle_rights |-> {}, en_passant |-> <<"-">>]

\* 4k3/8/8/3pP3/8/8/8/4K3 w - d6 0 1
FenEnPassant ==
    [pieces |-> <<"4", "k", "3", "/", "8", "/", "8", "/", "3", "p", "P", "3", "/", "8", "/", "8", "/", "8", "/", "4", "K", "3">>,
     side |-> "w", castle_rights |-> {}, en_passant |-> <<"d", "6">>]

\* 4k3/8/8/8/5p2/8/4P3/4K3 w - - 0 1
FenDoublePush ==
    [pieces |-> <<"4", "k", "3", "/", "8", "/", "8", "/", "8", "/", "5", "p", "2", "/", "8", "/", "4", "P", "3", "/", "4", "K", "3">>,
     side |-> "w", castle_rights |-> {}, en_passant |-> <<"-">>]

\* 1k1r4/1pp4p/p7/4p3/8/P5P1/1PP4P/2K1R3 w - - 0 1
FenSeeRook ==
    [pieces |-> <<"1", "k", "1", "r", "4", "/", "1", "p", "p", "4", "p", "/", "p", "7", "/", "4", "p", "3", "/", "8", "/", "P", "5", "P", "1", "/", "1", "P", "P", "4", "P", "/", "2", "K", "1", "R", "3">>,
     side |-> "w", castle_rights |-> {}, en_passant |-> <<"-">>]

\* 1k1r3q/1ppn3p/p4b2/4p3/8/P2N2P1/1PP1R1BP/2K1Q3 w - - 0 1
FenSeeKnight ==
    [pieces |-> <<"1", "k", "1", "r", "3", "q", "/", "1", "p", "p", "n", "3", "p", "/", "p", "4", "b", "2", "/", "4", "p", "3", "/", "8", "/", "P", "2", "N", "2", "P", "1", "/", "1", "P", "P", "1", "R", "1", "B", "P", "/", "2", "K", "1", "Q", "3">>,
     side |-> "w", castle_rights |-> {}, en_passant |-> <<"-">>]

\* 5rk1/1pp2q1p/p1pb4/8/3P1NP1/2P5/1P1BQ1P1/5RK1 b - - 0 1
FenSeeBishop ==
    [pieces |-> <<"5", "r", "k", "1", "/", "1", "p", "p", "2", "q", "1", "p", "/", "p", "1", "p", "b", "4", "/", "8", "/", "3", "P", "1", "N", "P", "1", "/", "2", "P", "5", "/", "1", "P", "1", "B", "Q", "1", "P", "1", "/", "5", "R", "K", "1">>,
     side |-> "b", castle_rights |-> {}, en_passant |-> <<"-">>]

\* 3r3k/3r4/2n1n3/8/3p4/2PR4/1B1Q4/3R3K w - - 0 1
FenSeeXray ==
    [pieces |-> <<"3", "r", "3", "k", "/", "3", "r", "4", "/", "2", "n", "1", "n", "3", "/", "8", "/", "3", "p", "4", "/", "2", "P", "R", "4", "/", "1", "B", "1", "Q", "4", "/", "3", "R", "3", "K">>,
     side |-> "w", castle_rights |-> {}, en_passant |-> <<"-">>]

\* 4k3/8/8/8/8/8/R7/R3K3 w Q - 0 1
FenRookFile ==
    [pieces |-> <<"4", "k", "3", "/", "8", "/", "8", "/", "8", "/", "8", "/", "8", "/", "R", "7", "/", "R", "3", "K", "3">>,
     side |-> "w", castle_rights |-> {"Q"}, en_passant |-> <<"-">>]

\* 4k3/8/8/3pP3/8/8/6K1/3r4 w - d6 0 1
FenSeeEnPassant ==
    [pieces |-> <<"4", "k", "3", "/", "8", "/", "8", "/", "3", "p", "P", "3", "/", "8", "/", "8", "/", "6", "K", "1", "/", "3", "r", "4">>,
     side |-> "w", castle_rights |-> {}, en_passant |-> <<"d", "6">>]

\* The positions explored.  `nodes` holds the ;D1 ;D2 ;D3 counts of the
\* position's line in the perft suite EPD_FILE (empty: not a suite position);
\* `walk` tells whether moves are played from the position.
Positions ==
    << [fen |-> FenStart, walk |-> TRUE, nodes |-> <<20, 400, 8902>>],
       [fen |-> FenKiwipete, walk |-> FALSE, nodes |-> <<48, 2039>>],
       [fen |-> FenCastle, walk |-> TRUE, nodes |-> <<26, 568, 13744>>],
       [fen |-> FenPromotion, walk |-> TRUE, nodes |-> <<11, 97, 887>>],
       [fen |-> FenPromotionCapture, walk |-> TRUE, nodes |-> <<24, 496, 9483>>],
       [fen |-> FenEnPassant, walk |-> TRUE, nodes |-> <<>>],
       [fen |-> FenDoublePush, walk |-> TRUE, nodes |-> <<>>],
       [fen |-> FenSeeRook, walk |-> FALSE, nodes |-> <<>>],
       [fen |-> FenSeeKnight, walk |-> FALSE, nodes |-> <<>>],
       [fen |-> FenSeeBishop, walk |-> FALSE, nodes |-> <<>>],
       [fen |-> FenSeeXray, walk |-> FALSE, nodes |-> <<>>],
       [fen |-> FenRookFile, walk |-> TRUE, nodes |-> <<>>],
       [fen |-> FenSeeEnPassant, walk |-> FALSE, nodes |-> <<>>] >>

\* ------------------------------------------------------------------------
\* Reference definitions, written over the mailbox alone and by the rules of
\* chess: what a piece on s attacks, and the minimax value of an exchange.
\* ------------------------------------------------------------------------

Abs(n) == IF n < 0 THEN 0 - n ELSE n

Sign(n) == IF n < 0 THEN -1 ELSE IF n > 0 THEN 1 ELSE 0

Largest(S) == CHOOSE x \in S : \A y \in S : x >= y

\* the tiles strictly between s and t on their common line
RefBetween(s, t) ==
    LET dr == Rank(t) - Rank(s)
        df == File(t) - File(s)
        n == Largest({Abs(dr), Abs(df)})
    IN  {(Rank(s) + k * Sign(dr)) * 8 + File(s) + k * Sign(df) : k \in 1 .. n - 1}

\* the piece of the mailbox `mail` on s attacks t when the tiles of occ are occupied
RefReaches(mail, s, t, occ) ==
    LET dr == Rank(t) - Rank(s)
        df == File(t) - File(s)
        diagonal == Abs(dr) = Abs(df) /\ dr # 0 /\ RefBetween(s, t) \cap occ = {}
        straight == (dr = 0) # (df = 0) /\ RefBetween(s, t) \cap occ = {}
        pt == mail[s].piece_type
    IN  CASE pt = "Pawn" -> Abs(df) = 1 /\ dr = (IF mail[s].piece_color = "White" THEN 1 ELSE -1)
          [] pt = "Knight" -> {Abs(dr), Abs(df)} = {1, 2}
          [] pt = "Bishop" -> diagonal
          [] pt = "Rook" -> straight
          [] pt = "Queen" -> diagonal \/ straight
          [] pt = "King" -> Largest({Abs(dr), Abs(df)}) = 1
          [] OTHER -> FALSE

RefOccupied(mail) == {t \in Tiles : mail[t] # NoPiece}

\* the king of colour c stands on a tile that a piece of the other colour attacks
RefKingAttacked(mail, c) ==
    \E k \in Tiles, s \in Tiles :
        /\ mail[k] = Piece("King", c)
        /\ mail[s] # NoPiece /\ mail[s].piece_color = Opposite(c)
        /\ RefReaches(mail, s, k, RefOccupied(mail))

\* the pieces of colour c among occ that attack sq
RefAttackers(mail, sq, occ, c) ==
    {s \in occ \ {sq} : mail[s].piece_color = c /\ RefReaches(mail, s, sq, occ)}

\* the best material gain of `side`, to move, from capturing (or not) the
\* piece worth `victim` that stands on sq; a king captures only an
\* undefended piece
RECURSIVE RefGain(_, _, _, _, _, _)
RefGain(values, mail, sq, occ, side, victim) ==
    LET candidates ==
            {s \in RefAttackers(mail, sq, occ, side) :
                mail[s].piece_type = "King" =>
                    RefAttackers(mail, sq, occ \ {s}, Opposite(side)) = {}}
    IN  Largest({0} \cup
            {victim - RefGain(values, mail, sq, occ \ {s}, Opposite(side),
                              values[mail[s].piece_type]) : s \in candidates})

\* the minimax gain of the side to move of b from the capture piece_move
RefSee(values, b, piece_move) ==
    LET mail == b.board
        mover == mail[piece_move.initial]
        promoted == piece_move.flags \in Promotions
        on_square == IF promoted THEN get_promotion_type(piece_move.flags) ELSE mover.piece_type
        taken == IF piece_move.flags = "EnPassant" THEN values["Pawn"]
                 ELSE IF mail[piece_move.end] # NoPiece
                      THEN values[mail[piece_move.end].piece_type] ELSE 0
        first == IF promoted THEN taken + values[on_square] - values["Pawn"] ELSE taken
        passed == IF piece_move.flags = "EnPassant"
                  THEN {Rank(piece_move.initial) * 8 + File(piece_move.end)} ELSE {}
        occ == ((RefOccupied(mail) \ {piece_move.initial}) \ passed) \cup {piece_move.end}
    IN  first - RefGain(values, mail, piece_move.end, occ, Opposite(mover.piece_color),
                        values[on_square])

\* the exchange values of the reference
RefValues ==
    [Pawn |-> 100, Knight |-> 300, Bishop |-> 300, Rook |-> 500, Queen |-> 900, King |-> 0]

\* ------------------------------------------------------------------------
\* engine/search.rs over a game given by its tree.  The search reads a board
\* through zobrist_key, half_move_counter, in_check, evaluate_board,
\* generate_moves, make_move and make_null_move only; a position of the
\* game gives these directly.  A move of a position is a Move together with
\* the position make_move leads to (0: make_move returns None), whether the
\* destination tile is empty (quiet) and, for a capture, the score
\* capture_bucket + mvv_lva that score_move gives it.
\* ------------------------------------------------------------------------

WORST_EVAL == -2147483647

BEST_EVAL == 2147483647

SHALLOWEST_PROVEN_LOSS == -100000

RFP_DEPTH == 5

RFP_THRESHOLD == 200

HASH_MOVE == 100000000

KILLER_MOVE == 15000000

QUIET_MOVE == 5000000

GameMove(initial, end, to, quiet, capture_score) ==
    [move |-> Move(initial, end, "None"), to |-> to, quiet |-> quiet,
     capture_score |-> capture_score]

GamePosition(zobrist_key, half_move_counter, side, checked, eval, null_move, moves) ==
    [zobrist_key |-> zobrist_key, half_move_counter |-> half_move_counter, side_to_move |-> side,
     in_check |-> checked, eval |-> eval, null_move |-> null_move, moves |-> moves]

\* The game searched.  Position 1 is the position of the driver at start;
\* White chooses between a move answered by a capture (position 2) and a
\* check (position 3); both lead to a position of three quiet moves
\* (position 4); positions 5 to 8 have no move, and position 6 is drawn by
\* the fifty-move rule.  Positions 9 to 16 are a second game, set up with
\* `position fen`: from position 9 White checks (position 10), Black has one
\* reply (position 11), and White then mates (position 12), checks again
\* (position 13, one reply to position 15), stalemates with a pawn move
\* (position 14), tries a move that leaves the king in check, or checks a
\* third way (position 16, which shares the reply of position 13).  Position 9
\* has a halfmove clock of 100 and its move is a pawn move.
Game ==
    << GamePosition(0, 97, "White", FALSE, 60, 2,
                << GameMove(12, 28, 2, TRUE, 0), GameMove(6, 21, 3, TRUE, 0) >>),
       GamePosition(1, 98, "Black", FALSE, -50, 1,
                << GameMove(57, 42, 4, TRUE, 0), GameMove(35, 28, 5, FALSE, 20000000) >>),
       GamePosition(2, 98, "Black", TRUE, -20, 1,
                << GameMove(60, 52, 4, TRUE, 0), GameMove(60, 59, 0, TRUE, 0) >>),
       GamePosition(4, 99, "White", FALSE, 50, 6,
                << GameMove(21, 38, 6, TRUE, 0), GameMove(11, 27, 7, TRUE, 0),
                   GameMove(14, 22, 8, TRUE, 0) >>),
       GamePosition(3, 0, "White", FALSE, 15, 2, << >>),
       GamePosition(5, 100, "Black", FALSE, 150, 4, << >>),
       GamePosition(6, 0, "Black", FALSE, 30, 4, << >>),
       GamePosition(7, 0, "Black", FALSE, 40, 4, << >>),
       GamePosition(8, 100, "White", FALSE, 0, 10,
                << GameMove(3, 39, 10, TRUE, 0) >>),
       GamePosition(9, 0, "Black", TRUE, -300, 9,
                << GameMove(62, 63, 11, TRUE, 0) >>),
       GamePosition(10, 1, "White", FALSE, 300, 14,
                << GameMove(39, 55, 12, TRUE, 0), GameMove(39, 47, 13, TRUE, 0),
                   GameMove(8, 16, 14, TRUE, 0), GameMove(4, 5, 0, TRUE, 0),
                   GameMove(9, 17, 16, TRUE, 0) >>),
       GamePosition(11, 2, "Black", TRUE, -300, 15, << >>),
       GamePosition(12, 2, "Black", TRUE, -300, 15,
                << GameMove(63, 62, 15, TRUE, 0) >>),
       GamePosition(13, 0, "Black", FALSE, 30, 15, << >>),
       GamePosition(14, 3, "White", FALSE, 300, 14, << >>),
       GamePosition(15, 2, "Black", TRUE, -300, 15,
                << GameMove(61, 53, 15, TRUE, 0), GameMove(63, 62, 15, TRUE, 0) >>) >>

\* Board::make_null_move: the same position with the other side to move
make_null_move(old_board) == Game[old_board].null_move

\* Board::in_check(side_to_move)
pos_in_check(old_board) == Game[old_board].in_check

\* eval::evaluate_board
evaluate_board(old_board) == Game[old_board].eval

\* Board::generate_moves(&mut moves, qsearch): captures only in quiescence
pos_generate_moves(old_board, qsearch) ==
    SelectSeq(Game[old_board].moves, LAMBDA m : ~qsearch \/ ~m.quiet)

\* MoveSorter::get_history
get_history(history_table, old_board, piece_move) ==
    history_table[<<Game[old_board].side_to_move, piece_move.initial, piece_move.end>>]

\* i32 division, truncating toward zero
Quot(a, b) == IF a >= 0 THEN a \div b ELSE 0 - ((0 - a) \div b)

Clamp(x, lo, hi) == IF x < lo THEN lo ELSE IF x > hi THEN hi ELSE x

\* an update_history that clamps the bonus to twice the range
update_history_wide_clamp(history_table, old_board, piece_move, bonus) ==
    LET clamped_bonus == Clamp(bonus, -32768, 32768)
        old_value == get_history(history_table, old_board, piece_move)
        index == <<Game[old_board].side_to_move, piece_move.initial, piece_move.end>>
    IN  [history_table EXCEPT
            ![index] = @ + clamped_bonus - Quot(old_value * Abs(clamped_bonus), 16384)]

\* MoveSorter::update_history
update_history(history_table, old_board, piece_move, bonus) ==
    LET clamped_bonus == Clamp(bonus, -16384, 16384)
        old_value == get_history(history_table, old_board, piece_move)
        index == <<Game[old_board].side_to_move, piece_move.initial, piece_move.end>>
    IN  [history_table EXCEPT
            ![index] = @ + clamped_bonus - Quot(old_value * Abs(clamped_bonus), 16384)]

\* MoveSorter::score_move
score_move(sorter, old_board, m, ply, hash_move, qsearch) ==
    IF hash_move = m.move THEN HASH_MOVE
    ELSE IF ~m.quiet THEN m.capture_score
    ELSE IF ~qsearch
         THEN IF sorter.killer_table[ply] = m.move
              THEN KILLER_MOVE + get_history(sorter.history_table, old_board, m.move)
              ELSE QUIET_MOVE + get_history(sorter.history_table, old_board, m.move)
         ELSE 0

\* MoveSorter::order_moves: hash move from the table, then a stable sort by
\* decreasing score
order_moves(sorter, tt, old_board, moves, ply, qsearch) ==
    LET entry == tt_get(tt, Game[old_board].zobrist_key)
        hash_move == IF entry # NoEntry THEN entry.best_move ELSE NoMove
        score(k) == score_move(sorter, old_board, moves[k], ply, hash_move, qsearch)
        before(k) == Cardinality({j \in 1 .. Len(moves) :
                        score(j) > score(k) \/ (score(j) = score(k) /\ j < k)})
    IN  [r \in 1 .. Len(moves) |-> moves[CHOOSE k \in 1 .. Len(moves) : before(k) = r - 1]]

\* Searcher::quiescence_search; the loop over the ordered captures from the
\* i-th on, with the running alpha and best_score
RECURSIVE quiescence_search(_, _, _, _, _, _)
RECURSIVE quiescence_loop(_, _, _, _, _, _, _, _)
quiescence_loop(sorter, tt, moves, i, ply, alpha, beta, best_score) ==
    IF i > Len(moves) THEN best_score
    ELSE IF moves[i].to = 0
         THEN quiescence_loop(sorter, tt, moves, i + 1, ply, alpha, beta, best_score)
         ELSE LET score == 0 - quiescence_search(sorter, tt, moves[i].to, ply + 1,
                                                 0 - beta, 0 - alpha)
                  best == IF score > best_score THEN score ELSE best_score
                  alpha1 == IF score > alpha THEN score ELSE alpha
              IN  IF score >= beta THEN best
                  ELSE quiescence_loop(sorter, tt, moves, i + 1, ply, alpha1, beta, best)

quiescence_search(sorter, tt, old_board, ply, alpha, beta) ==
    LET eval == evaluate_board(old_board)
        alpha1 == IF alpha > eval THEN alpha ELSE eval
        moves == order_moves(sorter, tt, old_board, pos_generate_moves(old_board, TRUE), ply, TRUE)
    IN  IF eval >= beta THEN eval
        ELSE quiescence_loop(sorter, tt, moves, 1, ply, alpha1, beta, eval)

\* ------------------------------------------------------------------------
\* The engine: the UCI front end (handle_command, one thread) feeds a queue
\* and owns the stop flag with the search thread (handle_board), which runs
\* the searches on the game.  A step of the search thread runs from one read
\* of the stop flag or the clock to the next.
\* ------------------------------------------------------------------------

\* commands read from the standard input
MaxCommands == 3

\* the deepest search, and the size less 4 of the per-ply search_stack
MAX_DEPTH == 2

\* largest d of `go depth d`
DepthArg == MAX_DEPTH

SHALLOWEST_PROVEN_WIN == 100000

DEEPEST_PROVEN_LOSS == SHALLOWEST_PROVEN_LOSS + MAX_DEPTH

\* searcher.max_depth of a timed search
MaxDepth == 1

\* slots of the searcher's transposition table
TTBuckets == 4

\* last index of search_stack: [SearchEntry; MAX_DEPTH + 4]
StackTop == MAX_DEPTH + 3

\* commands read in a replayed game
MaxReplays == 5

\* the positions a `position fen` command sets up
Fens == {1, 9, 11}

\* no move after `position`
NoUciMove == [parses |-> TRUE, initial |-> NoTile, end |-> NoTile]

\* the moves a `position ... moves` command carries: one that does not
\* parse, and two that do (in position 11 a pawn move, and a move that
\* leaves the king in check; from empty tiles in positions 1 and 9)
UciMoves ==
    {[parses |-> FALSE, initial |-> NoTile, end |-> NoTile],
     [parses |-> TRUE, initial |-> 8, end |-> 16],
     [parses |-> TRUE, initial |-> 4, end |-> 5]}

\* a UCICommands value on the channel
Message(command, time_limit, depth, fen, uci_move) ==
    [command |-> command, time_limit |-> time_limit, depth |-> depth, fen |-> fen,
     uci_move |-> uci_move]

\* largest late-move reduction
MaxReduction == 1

Plies == 0 .. StackTop

\* the entries of history_table[side][initial][end] the game can touch
HistoryIndex ==
    UNION {{<<Game[p].side_to_move, Game[p].moves[k].move.initial, Game[p].moves[k].move.end>> :
        k \in 1 .. Len(Game[p].moves)} : p \in 1 .. Len(Game)}

\* MoveSorter::new
MoveSorterNew ==
    [history_table |-> [i \in HistoryIndex |-> 0], killer_table |-> [p \in Plies |-> NoMove]]

\* SearchEntry::default
SearchEntryDefault == [killer_move |-> NoMove, static_eval |-> 0]

\* Searcher::new
SearcherNew ==
    [past_boards |-> <<>>,
     search_stack |-> [p \in Plies |-> SearchEntryDefault],
     move_sorter |-> MoveSorterNew,
     depth |-> 0, max_depth |-> MaxDepth, best_move |-> NoMove]

\* no value returned yet
NoRet == [set |-> FALSE, value |-> 0]

Return(value) == [set |-> TRUE, value |-> value]

\* the locals of a call search::<PV>(old_board, depth, ply, alpha, beta) at its start
NewFrame(pv, old_board, depth, ply, alpha, beta) ==
    [stage |-> "enter", pv |-> pv, old_board |-> old_board, depth |-> depth, ply |-> ply,
     alpha |-> alpha, beta |-> beta, in_check |-> FALSE, improving |-> FALSE,
     moves |-> <<>>, next |-> 1, num_moves |-> 0, best_score |-> WORST_EVAL,
     best_move |-> NoMove, evaluation_type |-> "UpperBound", quiet_moves |-> <<>>,
     null_window |-> FALSE, reduction |-> 0, extension |-> 0]

\* the handler of StartSearch at rest
DriverIdle ==
    [stage |-> "idle", timed |-> FALSE, infinite |-> FALSE, eval |-> 0, best_move |-> NoMove, iterations |-> 0,
     alpha |-> WORST_EVAL, beta |-> BEST_EVAL, delta |-> 25, score |-> 0]

NoProbe ==
    [pv |-> FALSE, ply |-> 0, depth |-> 0, alpha |-> 0, beta |-> 0, zobrist_key |-> -1,
     half_move_counter |-> 0, repetitions |-> 0, entry |-> NoEntry, how |-> "none"]

NoCompleted == [depth |-> 0, best_move |-> NoMove, score |-> 0]

\* no node has returned
NoLeft ==
    [how |-> "none", old_board |-> 0, pv |-> FALSE, depth |-> 0, ply |-> 0, num_moves |-> 0,
     value |-> 0]

\* no `position ... moves` has been handled
NoForced == [how |-> "none", before |-> 0]

\* nothing sent: the last bestmove with what the search had seen, the
\* position searched and the number of `go infinite` answered
NoOut ==
    [bestmove |-> NoMove, eval |-> 0, timed |-> FALSE, cancelled |-> FALSE, truncated |-> FALSE,
     completed |-> NoCompleted, published |-> NoMove, root |-> 0, infinite |-> 0]

\* what the front end has read: the number of `go infinite` sent, and that
\* number when `stop` was last read
NoneHeard == [go_infinite |-> 0, stop |-> 0]

\* what the properties read of a run: whether a read of search_cancelled
\* has returned true since the search started (cancel_seen) and whether a
\* node has returned from its loop at line 247 (truncated), what the last
\* search of the root that reached line 300 chose (root_result), the result
\* of the latest search that ran to completion (completed), the last move
\* published by the root, the last node entered, the last step of the
\* handler, the last node that returned (left), the position searched, the
\* last `position ... moves` handled, the
\* number of positions the game has reached since its last irreversible
\* move (fresh), and the plies whose killer move was stored by a cutoff of
\* this search and not cleared since (killers)
GhostInit ==
    [cancel_seen |-> FALSE, truncated |-> FALSE,
     root_result |-> [best_move |-> NoMove, score |-> 0],
     completed |-> NoCompleted, published |-> NoMove,
     probe |-> NoProbe, handled |-> "none",
     left |-> NoLeft, searched |-> 0, forced |-> NoForced, fresh |-> 0, killers |-> {}]

\* ------------------------------------------------------------------------
\* The board machine: a position of Positions is set up with Board::new and
\* moves of the generator are played on it with make_move; perft and the
\* static exchange evaluator are run on the position set up.
\* ------------------------------------------------------------------------

\* plies played from the position set up
MaxPlies == 2

\* deepest perft run
PerftDepth == 2

VARIABLES root, board, zobrist_key, parent, last_move, result, plies, perft_out, see_out, score_out,
          qs_out,
          transposition_table, tt_log, tt_got,
          stdin, fe_pc, queue, heard, stop_signal, hard_expired, overflow_checks,
          position, searcher, driver, frames, ret, out, ghost

boardVars == <<root, board, zobrist_key, parent, last_move, result, plies, perft_out, see_out, score_out,
              qs_out>>

ttVars == <<transposition_table, tt_log, tt_got>>

engineVars == <<stdin, fe_pc, queue, heard, stop_signal, hard_expired, overflow_checks,
                position, searcher, driver, frames, ret, out, ghost>>

vars == <<boardVars, ttVars, engineVars>>

\* what the board machine leaves alone
notBoard == <<ttVars, engineVars>>

\* what the engine leaves alone
notEngine == <<boardVars, tt_log, tt_got>>

NoPerft == [depth |-> 0, nodes |-> 0]

NoSee == [piece_move |-> NoMove, threshold |-> 0, see |-> FALSE]

\* the thresholds static_exchange_evaluation is called with: 0, and 1 (the
\* capture must win material)
SeeThresholds == {0, 1}

NoScore == [piece_move |-> NoMove, score |-> 0]

NoQuiescence == [piece_move |-> NoMove, board |-> NoBoard]

\* the table machine at rest
TTIdle ==
    /\ transposition_table = tt_new(1)
    /\ tt_log = <<>>
    /\ tt_got = [key |-> -1, entry |-> NoEntry]

\* the engine at rest
EngineIdle ==
    /\ stdin = 0
    /\ fe_pc = "read"
    /\ queue = <<>>
    /\ heard = NoneHeard
    /\ stop_signal = FALSE
    /\ hard_expired = FALSE
    /\ overflow_checks = FALSE
    /\ position = 1
    /\ searcher = SearcherNew
    /\ driver = DriverIdle
    /\ frames = <<>>
    /\ ret = NoRet
    /\ out = NoOut
    /\ ghost = GhostInit

\* the board machine at rest
BoardIdle ==
    /\ root = 1
    /\ board = BoardDefault
    /\ zobrist_key = {}
    /\ parent = BoardDefault
    /\ last_move = NoMove
    /\ result = BoardDefault
    /\ plies = 0
    /\ perft_out = NoPerft
    /\ see_out = NoSee
    /\ score_out = NoScore
    /\ qs_out = NoQuiescence

\* Board::new(fen), the key computed from scratch
BoardInit ==
    /\ root \in 1 .. Len(Positions)
    /\ board = BoardNew(Positions[root].fen)
    /\ zobrist_key = generate_zobrist_hash(board)
    /\ parent = board
    /\ last_move = NoMove
    /\ result = board
    /\ plies = 0
    /\ perft_out = NoPerft
    /\ see_out = NoSee
    /\ score_out = NoScore
    /\ qs_out = NoQuiescence
    /\ TTIdle
    /\ EngineIdle

\* `if let Some(board) = board.make_move(piece_move)` on a generated move:
\* parent is the receiver, result the value returned, board the caller's
\* board afterwards
MakeMove ==
    /\ Positions[root].walk
    /\ plies < MaxPlies
    /\ \E piece_move \in generate_moves(board, FALSE) :
          LET new == make_move(board, piece_move) IN
          /\ parent' = board
          /\ last_move' = piece_move
          /\ result' = new
          /\ board' = IF new = NoBoard THEN board ELSE new
          /\ plies' = IF new = NoBoard THEN plies ELSE plies + 1
          /\ zobrist_key' = IF new = NoBoard THEN zobrist_key
                            ELSE update_zobrist_key(zobrist_key, board, new)
    /\ perft_out' = NoPerft
    /\ see_out' = NoSee
    /\ score_out' = NoScore
    /\ qs_out' = NoQuiescence
    /\ UNCHANGED <<root, notBoard>>

Fresh ==
    /\ plies = 0 /\ last_move = NoMove
    /\ perft_out = NoPerft /\ see_out = NoSee /\ score_out = NoScore
    /\ qs_out = NoQuiescence

\* board.perft(depth) on a position of the suite
Perft ==
    /\ Fresh
    /\ \E depth \in 1 .. PerftDepth :
          /\ depth <= Len(Positions[root].nodes)
          /\ perft_out' = [depth |-> depth, nodes |-> perft(board, depth)]
    /\ UNCHANGED <<root, board, zobrist_key, parent, last_move, result, plies, see_out, score_out,
                   qs_out, notBoard>>

IsCapture(b, piece_move) ==
    b.board[piece_move.end] # NoPiece \/ piece_move.flags = "EnPassant"

\* MoveSorter::static_exchange_evaluation(&board, piece_move, threshold) on a
\* capture
See ==
    /\ Fresh
    /\ \E piece_move \in generate_moves(board, FALSE), threshold \in SeeThresholds :
          /\ IsCapture(board, piece_move)
          /\ see_out' = [piece_move |-> piece_move, threshold |-> threshold,
                         see |-> static_exchange_evaluation(board, piece_move, threshold)]
    /\ UNCHANGED <<root, board, zobrist_key, parent, last_move, result, plies, perft_out, score_out,
                   qs_out, notBoard>>

\* MoveSorter::score_move(board, piece_move, ply, None, qsearch) on a capture
ScoreMove ==
    /\ Fresh
    /\ \E piece_move \in generate_moves(board, FALSE) :
          /\ IsCapture(board, piece_move)
          /\ score_out' = [piece_move |-> piece_move, score |-> score_capture(board, piece_move)]
    /\ UNCHANGED <<root, board, zobrist_key, parent, last_move, result, plies, perft_out, see_out,
                   qs_out, notBoard>>

\* one turn of the loop of quiescence_search on the board: a move of
\* generate_moves(.., true) is made, and the board the recursive call gets
\* (NoBoard: the move is skipped) is noted
Quiescence ==
    /\ perft_out = NoPerft /\ see_out = NoSee /\ score_out = NoScore
    /\ qs_out = NoQuiescence
    /\ \E piece_move \in generate_moves(board, TRUE) :
          qs_out' = [piece_move |-> piece_move, board |-> make_move(board, piece_move)]
    /\ UNCHANGED <<root, board, zobrist_key, parent, last_move, result, plies, perft_out, see_out,
                   score_out, notBoard>>

BoardNext == MakeMove \/ Perft \/ See \/ ScoreMove \/ Quiescence

SpecBoard == BoardInit /\ [][BoardNext]_vars

\* ------------------------------------------------------------------------
\* The table machine: a table of 1 .. MaxBuckets slots is created, stores
\* and clears are applied to it and logged, and keys are looked up.
\* ------------------------------------------------------------------------

\* largest table
MaxBuckets == 3

\* longest sequence of stores and clears
MaxOps == 2

\* deepest entry stored
MaxStoredDepth == 2

NoGot == [key |-> -1, entry |-> NoEntry]

\* TranspositionTable::new(buckets)
TTInit ==
    /\ \E buckets \in 1 .. MaxBuckets : transposition_table = tt_new(buckets)
    /\ tt_log = <<>>
    /\ tt_got = NoGot
    /\ BoardIdle
    /\ EngineIdle

\* table.store(key, entry); the entry carries the key stored under or the next one
Store ==
    /\ Len(tt_log) < MaxOps
    /\ \E key \in Keys, other \in 0 .. 1, depth \in 1 .. MaxStoredDepth :
          LET entry == TTEntry((key + other) % (2 ^ KeyBits), depth, 0, "Exact", NoMove) IN
          /\ transposition_table' = tt_store(transposition_table, key, entry)
          /\ tt_log' = Append(tt_log, [op |-> "store", key |-> key, entry |-> entry])
    /\ tt_got' = NoGot
    /\ UNCHANGED <<boardVars, engineVars>>

\* table.clear()
Clear ==
    /\ Len(tt_log) < MaxOps
    /\ transposition_table' = tt_clear(transposition_table)
    /\ tt_log' = Append(tt_log, [op |-> "clear", key |-> 0, entry |-> NoEntry])
    /\ tt_got' = NoGot
    /\ UNCHANGED <<boardVars, engineVars>>

\* table.get(key)
Get ==
    /\ \E key \in Keys :
          tt_got' = [key |-> key, entry |-> tt_get(transposition_table, key)]
    /\ UNCHANGED <<transposition_table, tt_log, boardVars, engineVars>>

TTNext == Store \/ Clear \/ Get

SpecTT == TTInit /\ [][TTNext]_vars

\* the slot a logged store went to
LoggedSlot(i) == tt_index(transposition_table, tt_log[i].key)

\* the stores into the slot of key k that no later clear has erased
LiveStores(k) ==
    {i \in 1 .. Len(tt_log) :
        /\ tt_log[i].op = "store"
        /\ LoggedSlot(i) = tt_index(transposition_table, k)
        /\ \A j \in i + 1 .. Len(tt_log) : tt_log[j].op # "clear"}

\* the entry the claim promises for get(k)
RefLookup(k) ==
    IF LiveStores(k) = {} THEN NoEntry
    ELSE LET last == tt_log[Largest(LiveStores(k))].entry
         IN  IF last.zobrist_key = k THEN last ELSE NoEntry

\* C4: get(k) returns the entry most recently stored into slot index(k)
\* since the last clear when that entry's key is k, and nothing otherwise.
C4_DirectMapped == tt_got # NoGot => tt_got.entry = RefLookup(tt_got.key)

\* a shallower entry has replaced a deeper one in its slot and is returned
C4_Witness ==
    /\ tt_got.entry # NoEntry
    /\ Len(tt_log) = 2
    /\ tt_log[1].op = "store" /\ tt_log[2].op = "store"
    /\ LoggedSlot(1) = LoggedSlot(2)
    /\ tt_log[1].entry.depth > tt_log[2].entry.depth
    /\ tt_got.entry = tt_log[2].entry

\* ------------------------------------------------------------------------
\* Properties of the board machine
\* ------------------------------------------------------------------------

Colours == {"White", "Black"}

TypesOn(b, t) == {i \in 1 .. 6 : t \in piece(b, PieceTypes[i])}

ColoursOn(b, t) == {c \in Colours : t \in color(b, c)}

\* C6: on every board reached from a FEN-constructed board by successful
\* make_move calls, for every tile t, the mailbox holds a piece on t if and
\* only if exactly one piece-type bitboard and exactly one colour bitboard
\* contain t, and these are the bitboards of the piece's type and colour.
C6_Redundancy ==
    \A t \in Tiles :
        /\ (board.board[t] # NoPiece) <=>
               (Cardinality(TypesOn(board, t)) = 1 /\ Cardinality(ColoursOn(board, t)) = 1)
        /\ board.board[t] # NoPiece =>
               /\ t \in piece(board, board.board[t].piece_type)
               /\ t \in color(board, board.board[t].piece_color)

\* an en-passant capture has been made: the captured pawn left a tile that is
\* neither end of the move
C6_Witness ==
    /\ last_move.flags = "EnPassant" /\ result # NoBoard
    /\ board.board[Rank(last_move.initial) * 8 + File(last_move.end)] = NoPiece
    /\ board.board[last_move.end].piece_type = "Pawn"

C8_ZobristConsistency == zobrist_key = generate_zobrist_hash(board)

C10_SeeMatchesReference ==
    (see_out # NoSee /\ see_out.threshold = 0) =>
        (see_out.see <=> RefSee(RefValues, board, see_out.piece_move) >= 0)

\* the exchange loop of static_exchange_evaluation is entered: neither early
\* return is taken
EntersExchange(b, piece_move, threshold) ==
    LET next_victim == IF piece_move.flags \in Promotions
                       THEN get_promotion_type(piece_move.flags)
                       ELSE b.board[piece_move.initial].piece_type
        balance == capture_move_value(b, piece_move) - threshold
    IN  balance >= 0 /\ balance - see_value(next_victim) < 0

\* the tile of the pawn an en-passant capture takes: the rank of the origin,
\* the file of the target
CapturedPawnTile(piece_move) ==
    TileNew(Rank(piece_move.initial), File(piece_move.end))

\* C28: when static_exchange_evaluation evaluates an en-passant capture and
\* enters the exchange, the occupancy its attackers are computed with is the
\* board's occupancy with the origin of the pawn and the tile of the captured
\* pawn cleared and the target set.
C28_SeeEnPassantOccupancy ==
    (/\ see_out # NoSee
     /\ see_out.piece_move.flags = "EnPassant"
     /\ EntersExchange(board, see_out.piece_move, see_out.threshold)) =>
        see_occupied(board, see_out.piece_move) =
            ((occupied(board) \ {see_out.piece_move.initial, CapturedPawnTile(see_out.piece_move)})
                 \cup {see_out.piece_move.end})

\* the number of men and the number of pawns on a board
Men(b) == Cardinality(occupied(b))

Pawns(b) == Cardinality(piece(b, "Pawn"))

\* C30: a move generated in captures-only mode is a capture, an en-passant
\* capture or a promotion, and the board quiescence_search recurses on has
\* fewer men than the board it was generated on, or as many men and fewer
\* pawns.
C30_QuiescenceDecreases ==
    qs_out # NoQuiescence =>
        /\ \/ IsCapture(board, qs_out.piece_move)
           \/ qs_out.piece_move.flags \in Promotions
        /\ qs_out.board # NoBoard =>
               \/ Men(qs_out.board) < Men(board)
               \/ Men(qs_out.board) = Men(board) /\ Pawns(qs_out.board) < Pawns(board)

\* the recursion is entered after a promotion that captures nothing
C30_Witness ==
    /\ qs_out # NoQuiescence /\ qs_out.board # NoBoard
    /\ qs_out.piece_move.flags \in Promotions
    /\ ~IsCapture(board, qs_out.piece_move)
    /\ Men(qs_out.board) = Men(board) /\ Pawns(qs_out.board) = Pawns(board) - 1

\* the corner tile of a colour's home rank on a side
Corner(c, side) ==
    TileNew(IF c = "White" THEN 0 ELSE 7, IF side = "KingSide" THEN 7 ELSE 0)

\* CastleRights permitting a side
Permits(rights, side) == rights = side \/ rights = "Both"

\* the moves that by the rules take the right of colour c on a side: c's king
\* moves, c's rook leaves the corner, or a piece is captured on the corner
LosesRight(b, piece_move, c, side) ==
    \/ b.board[piece_move.initial] = Piece("King", c)
    \/ b.board[piece_move.initial] = Piece("Rook", c) /\ piece_move.initial = Corner(c, side)
    \/ b.board[piece_move.end] # NoPiece /\ piece_move.end = Corner(c, side)

\* C21: a successful make_move clears the right of colour c on a side if and
\* only if c's king moves, or a rook of c leaves the corner tile of that side
\* on c's home rank, or a piece is captured on that corner tile; any other
\* move leaves the right unchanged, and a right that is cleared is not
\* restored by the move.
C21_CastleRightsUpdate ==
    (last_move # NoMove /\ result # NoBoard) =>
        \A c \in Colours, side \in {"KingSide", "QueenSide"} :
            LET before == Permits(parent.castle_rights[ColorIndex(c)], side)
                after == Permits(result.castle_rights[ColorIndex(c)], side)
            IN  /\ before => (~after <=> LosesRight(parent, last_move, c, side))
                /\ ~before => ~after

\* the side a castling move castles to
CastlingSide(piece_move) ==
    IF File(piece_move.end) > File(piece_move.initial) THEN "KingSide" ELSE "QueenSide"

\* C22: a castling move is generated for the side to move only if its rights
\* permit that side, the tiles between the king and the corner rook (two on
\* the king side, three on the queen side) are all empty, and no piece of the
\* opponent attacks the king's tile, the tile it crosses or its destination;
\* the captures-only generation holds no castling move.
C22_CastlingGeneration ==
    /\ \A m \in generate_moves(board, FALSE) :
           m.flags = "Castling" =>
               LET c == board.side_to_move
                   side == CastlingSide(m)
                   mail == board.board
                   between == RefBetween(m.initial, Corner(c, side))
               IN  /\ Permits(board.castle_rights[ColorIndex(c)], side)
                   /\ mail[m.initial] = Piece("King", c)
                   /\ Cardinality(between) = (IF side = "KingSide" THEN 2 ELSE 3)
                   /\ \A t \in between : mail[t] = NoPiece
                   /\ \A t \in {m.initial, m.end} \cup RefBetween(m.initial, m.end) :
                          RefAttackers(mail, t, RefOccupied(mail), Opposite(c)) = {}
    /\ \A m \in generate_moves(board, TRUE) : m.flags # "Castling"

\* a board reached by a move on which the side to move holds both rights and
\* exactly one castling move is generated for it
C22_Witness ==
    /\ plies > 0
    /\ board.castle_rights[ColorIndex(board.side_to_move)] = "Both"
    /\ Cardinality({m \in generate_moves(board, FALSE) : m.flags = "Castling"}) = 1

\* the (type, colour) pairs
PieceKinds == {Piece(PieceTypes[i], c) : i \in 1 .. 6, c \in Colours}

\* C23: the key of a piece is selected by its type, colour and tile, and on
\* the tile of any piece of the board every other (type, colour) pair selects
\* a different entry of ZOBRIST_PIECE_KEYS, so that replacing the piece by a
\* piece of another kind changes the hash.
C23_PieceKeys ==
    \A t \in Tiles :
        board.board[t] # NoPiece =>
            \A p \in PieceKinds \ {board.board[t]} :
                /\ piece_zobrist_key(p, t) # piece_zobrist_key(board.board[t], t)
                /\ generate_zobrist_hash([board EXCEPT !.board[t] = p])
                       # generate_zobrist_hash(board)

\* C24: the en-passant term of the hash is the key of the file of the
\* en-passant tile, entry 0 when there is none, and a board that differs from
\* the board reached only in the file of its en-passant tile has a different
\* hash.
C24_EnPassantKey ==
    LET ep == board.en_passant IN
    /\ ep = NoTile => en_passant_zobrist_key(board) = {<<"ZOBRIST_EN_PASSANT_KEYS", 0, 0>>}
    /\ ep # NoTile =>
           /\ en_passant_zobrist_key(board) = {<<"ZOBRIST_EN_PASSANT_KEYS", File(ep) + 1, 0>>}
           /\ \A f \in 0 .. 7 :
                  f # File(ep) =>
                      generate_zobrist_hash([board EXCEPT !.en_passant = TileNew(Rank(ep), f)])
                          # generate_zobrist_hash(board)

\* the piece a capture takes
Captured(b, piece_move) ==
    IF piece_move.flags = "EnPassant"
    THEN Piece("Pawn", Opposite(b.side_to_move)) ELSE b.board[piece_move.end]

\* C26: in move ordering a capture is scored GOOD_CAPTURE + MVV-LVA if
\* static_exchange_evaluation(move, 0) is true and BAD_CAPTURE + MVV-LVA
\* otherwise, MVV-LVA being 100 x the value of the piece taken minus the
\* value of the piece that takes.
C26_GoodCaptureBucket ==
    score_out # NoScore =>
        LET m == score_out.piece_move
            mvv_lva == 100 * get_value(Captured(board, m).piece_type)
                       - get_value(board.board[m.initial].piece_type)
        IN  score_out.score =
                (IF static_exchange_evaluation(board, m, 0) THEN GOOD_CAPTURE ELSE BAD_CAPTURE)
                + mvv_lva

\* ------------------------------------------------------------------------
\* The engine machine: main starts handle_command's thread, which reads
\* commands, and handle_board's thread, which takes them from the queue.
\* overflow_checks is the build's setting for arithmetic overflow (a panic
\* when set, wrapping when not).
\* ------------------------------------------------------------------------

\* main: the two threads started, handle_board with a new board and searcher
EngineInit ==
    /\ stdin = 0
    /\ fe_pc = "read"
    /\ queue = <<>>
    /\ heard = NoneHeard
    /\ stop_signal = FALSE
    /\ hard_expired = FALSE
    /\ overflow_checks \in BOOLEAN
    /\ position = 1
    /\ searcher = SearcherNew
    /\ transposition_table = tt_new(TTBuckets)
    /\ driver = DriverIdle
    /\ frames = <<>>
    /\ ret = NoRet
    /\ out = NoOut
    /\ ghost = GhostInit
    /\ tt_log = <<>>
    /\ tt_got = NoGot
    /\ BoardIdle

searchThread == <<overflow_checks, position, searcher, transposition_table, driver, frames, ret, out, ghost>>

\* ---- handle_command (front-end thread)

CanRead == fe_pc = "read" /\ stdin < MaxCommands

\* handle_board's thread has panicked and dropped the receiver
Hung == driver.stage = "panic"

\* sender.send(..).expect(..): the messages are queued and the front end
\* goes on at pc, or the send fails and the front end panics
Send(messages, pc) ==
    IF Hung
    THEN fe_pc' = "panic" /\ UNCHANGED queue
    ELSE fe_pc' = pc /\ queue' = queue \o messages

\* "ucinewgame", line 32: the command is sent
UciNewGameSend ==
    /\ CanRead
    /\ stdin' = stdin + 1
    /\ Send(<<Message("NewGame", -1, -1, 0, NoUciMove)>>, "newgame")
    /\ UNCHANGED <<heard, stop_signal, hard_expired, searchThread, notEngine>>

\* "ucinewgame", line 33: the stop flag is raised
UciNewGameStop ==
    /\ fe_pc = "newgame"
    /\ stop_signal' = TRUE
    /\ fe_pc' = "read"
    /\ UNCHANGED <<stdin, queue, heard, hard_expired, searchThread, notEngine>>

\* "stop"
UciStop ==
    /\ CanRead
    /\ stdin' = stdin + 1
    /\ stop_signal' = TRUE
    /\ heard' = [heard EXCEPT !.stop = heard.go_infinite]
    /\ UNCHANGED <<fe_pc, queue, hard_expired, searchThread, notEngine>>

\* "go movetime t"
UciGoMovetime ==
    /\ CanRead
    /\ stdin' = stdin + 1
    /\ Send(<<Message("StartSearch", 1, -1, 0, NoUciMove)>>, "read")
    /\ UNCHANGED <<heard, stop_signal, hard_expired, searchThread, notEngine>>

\* "go depth d"
UciGoDepth ==
    /\ CanRead
    /\ stdin' = stdin + 1
    /\ \E d \in 1 .. DepthArg :
          Send(<<Message("StartSearch", -1, d, 0, NoUciMove)>>, "read")
    /\ UNCHANGED <<heard, stop_signal, hard_expired, searchThread, notEngine>>

\* "go infinite"
UciGoInfinite ==
    /\ CanRead
    /\ stdin' = stdin + 1
    /\ Send(<<Message("StartSearch", -1, -1, 0, NoUciMove)>>, "read")
    /\ heard' = IF Hung THEN heard ELSE [heard EXCEPT !.go_infinite = @ + 1]
    /\ UNCHANGED <<stop_signal, hard_expired, searchThread, notEngine>>

\* "position fen .." with one move after `moves` or none, lines 36-71
UciPosition ==
    /\ CanRead
    /\ stdin' = stdin + 1
    /\ \E fen \in Fens, uci_move \in UciMoves \cup {NoUciMove} :
          Send(<<Message("SetPosition", -1, -1, fen, NoUciMove)>> \o
                   (IF uci_move = NoUciMove THEN <<>>
                    ELSE <<Message("ForceMove", -1, -1, 0, uci_move)>>),
               "read")
    /\ UNCHANGED <<heard, stop_signal, hard_expired, searchThread, notEngine>>

\* the clock passes the hard limit of the running timed search
HardTimeExpires ==
    /\ driver.timed /\ ~driver.infinite /\ driver.stage \in {"loop", "search", "check"}
    /\ ~hard_expired
    /\ hard_expired' = TRUE
    /\ UNCHANGED <<stdin, fe_pc, queue, heard, stop_signal, searchThread, notEngine>>

frontEnd == <<stdin, fe_pc, queue, heard>>

\* Searcher::search_cancelled
search_cancelled == stop_signal \/ hard_expired

\* ---- handle_board (search thread)

Top == frames[Len(frames)]

Pop == SubSeq(frames, 1, Len(frames) - 1)

SetTop(f) == [frames EXCEPT ![Len(frames)] = f]

Call(f, callee) == Append(SetTop(f), callee)

\* a read of search_cancelled noted
Observed(g, cancelled) == [g EXCEPT !.cancel_seen = @ \/ cancelled]

\* the thread of handle_board panics
Panic ==
    /\ driver' = [driver EXCEPT !.stage = "panic"]
    /\ frames' = <<>>
    /\ ret' = NoRet

Waiting(command) ==
    /\ driver.stage = "idle"
    /\ queue # <<>>
    /\ Head(queue).command = command

\* UCICommands::NewGame
HandleNewGame ==
    /\ Waiting("NewGame")
    /\ queue' = Tail(queue)
    /\ transposition_table' = tt_clear(transposition_table)
    /\ searcher' = [searcher EXCEPT !.past_boards = <<>>, !.move_sorter = MoveSorterNew]
    /\ ghost' = [ghost EXCEPT !.handled = "NewGame", !.fresh = 0]
    /\ UNCHANGED <<stdin, fe_pc, heard, stop_signal, hard_expired, overflow_checks, position,
                   driver, frames, ret, out, notEngine>>

\* UCICommands::SetPosition, line 124
HandleSetPosition ==
    /\ Waiting("SetPosition")
    /\ queue' = Tail(queue)
    /\ position' = Head(queue).fen
    /\ ghost' = [ghost EXCEPT !.handled = "SetPosition"]
    /\ UNCHANGED <<stdin, fe_pc, heard, stop_signal, hard_expired, overflow_checks, searcher,
                   transposition_table, driver, frames, ret, out, notEngine>>

\* the moves of the piece on a tile of the position
piece_moves(old_board, tile) ==
    SelectSeq(Game[old_board].moves, LAMBDA m : m.move.initial = tile)

\* lines 126-143 on one move: the position make_move gives, or 0 where
\* from_uci, one of the two expects or the unwrap panics
force_move(old_board, uci_move) ==
    LET generated == piece_moves(old_board, uci_move.initial)
        found == SelectSeq(generated, LAMBDA m : m.move.end = uci_move.end)
    IN  IF ~uci_move.parses THEN 0
        ELSE IF generated = <<>> THEN 0
        ELSE IF found = <<>> THEN 0
        ELSE found[1].to

\* UCICommands::ForceMove, lines 125-145
HandleForceMove ==
    /\ Waiting("ForceMove")
    /\ queue' = Tail(queue)
    /\ LET new == force_move(position, Head(queue).uci_move) IN
       IF new = 0
       THEN /\ Panic
            /\ ghost' = [ghost EXCEPT !.handled = "ForceMove",
                                      !.forced = [how |-> "invalid", before |-> position]]
            /\ UNCHANGED position
       ELSE /\ position' = new
            /\ ghost' = [ghost EXCEPT !.handled = "ForceMove",
                                      !.forced = [how |-> "valid", before |-> position],
                                      !.fresh = IF Game[new].half_move_counter = 0
                                                THEN 0 ELSE @]
            /\ UNCHANGED <<driver, frames, ret>>
    /\ UNCHANGED <<stdin, fe_pc, heard, stop_signal, hard_expired, overflow_checks, searcher,
                   transposition_table, out, notEngine>>

\* UCICommands::StartSearch up to the call of search_timed or search
StartSearch ==
    /\ Waiting("StartSearch")
    /\ queue' = Tail(queue)
    /\ stop_signal' = FALSE
    /\ hard_expired' = FALSE
    /\ ghost' = [GhostInit EXCEPT !.handled = "StartSearch", !.searched = position,
                                  !.fresh = ghost.fresh]
    /\ ret' = NoRet
    /\ LET message == Head(queue) IN
       IF message.time_limit # -1 \/ message.depth = -1
       THEN /\ searcher' = [searcher EXCEPT !.max_depth = MaxDepth, !.best_move = NoMove,
                                            !.depth = 0]
            /\ driver' = [DriverIdle EXCEPT !.stage = "loop", !.timed = TRUE,
                                            !.infinite = message.time_limit = -1]
            /\ frames' = <<>>
       ELSE /\ searcher' = [searcher EXCEPT !.max_depth = message.depth, !.best_move = NoMove]
            /\ driver' = [DriverIdle EXCEPT !.stage = "search"]
            /\ frames' = <<NewFrame(TRUE, position, message.depth, 0, WORST_EVAL, BEST_EVAL)>>
    /\ UNCHANGED <<stdin, fe_pc, heard, overflow_checks, position, transposition_table, out,
                   notEngine>>

\* a search_timed that leaves the move the root published
search_timed_keep_published(self, best_move) == self

\* search_timed, line 111: the move of the last accepted iteration replaces
\* the one the root published
search_timed_result(self, best_move) == [self EXCEPT !.best_move = best_move]

\* search_timed: the head of the loop, lines 93-100
LoopTop ==
    /\ driver.stage = "loop"
    /\ \E soft_reached \in BOOLEAN :
          /\ soft_reached => driver.iterations >= 1 /\ ~driver.infinite
          /\ IF driver.iterations > searcher.max_depth \/ soft_reached
             THEN /\ searcher' = search_timed_result(searcher, driver.best_move)
                  /\ driver' = [driver EXCEPT !.stage = "reply"]
                  /\ frames' = <<>>
             ELSE LET depth == searcher.depth + 1
                      narrow == depth >= 4
                      alpha == IF narrow THEN driver.eval - 25 ELSE WORST_EVAL
                      beta == IF narrow THEN driver.eval + 25 ELSE BEST_EVAL
                  IN  /\ searcher' = [searcher EXCEPT !.depth = depth]
                      /\ driver' = [driver EXCEPT !.stage = "search", !.iterations = @ + 1,
                                                  !.delta = 25, !.alpha = alpha, !.beta = beta]
                      /\ frames' = <<NewFrame(TRUE, position, depth, 0, alpha, beta)>>
    /\ ret' = NoRet
    /\ UNCHANGED <<frontEnd, stop_signal, hard_expired, overflow_checks, position,
                   transposition_table, out, ghost, notEngine>>

\* the moves of a node generated and ordered, lines 200-208
start_moves(f, self, tt) ==
    [f EXCEPT !.stage = "moves",
              !.moves = order_moves(self.move_sorter, tt, f.old_board,
                                    pos_generate_moves(f.old_board, FALSE), f.ply, FALSE)]

\* past_boards.iter().filter(|p| **p == key).count()
repetitions(past_boards, key) ==
    Cardinality({i \in 1 .. Len(past_boards) : past_boards[i] = key})

\* a test that lets the halfmove clock reach 100
is_draw_over_hundred(self, old_board, ply) ==
    /\ ply > 0
    /\ \/ Game[old_board].half_move_counter > 100
       \/ repetitions(self.past_boards, Game[old_board].zobrist_key) = 2

\* the test of line 148
is_draw(self, old_board, ply) ==
    /\ ply > 0
    /\ \/ Game[old_board].half_move_counter >= 100
       \/ repetitions(self.past_boards, Game[old_board].zobrist_key) = 2

\* a match that takes an entry of any bound
tt_cutoff_any_bound(entry, alpha, beta) == TRUE

\* the match of lines 159-164 on an entry found
tt_cutoff(entry, alpha, beta) ==
    \/ entry.evaluation_type = "Exact"
    \/ entry.evaluation_type = "UpperBound" /\ entry.evaluation <= alpha
    \/ entry.evaluation_type = "LowerBound" /\ entry.evaluation >= beta

\* lines 156-158: whether the table is probed and gives an entry deep enough
tt_probe(pv, ply, depth, entry, key) ==
    /\ ~pv /\ ply > 0
    /\ entry # NoEntry
    /\ entry.zobrist_key = key /\ entry.depth >= depth

\* a value returned to the caller: the frame is dropped
Leave(value) ==
    /\ frames' = Pop
    /\ ret' = Return(value)

\* the return of the node of frame f noted
Left(g, f, how, value) ==
    [g EXCEPT !.left = [how |-> how, old_board |-> f.old_board, pv |-> f.pv, depth |-> f.depth,
                        ply |-> f.ply, num_moves |-> f.num_moves, value |-> value]]

\* line 146: search_stack[ply + 2] is off the array
StackOverrun(ply) == ply + 2 > StackTop

\* search, lines 146-208: from the entry of a node to its return, its null
\* move search or its first move.  `ply - 2` at a ply below 2 wraps to an
\* index off the stack (the WORST_EVAL default) or, with overflow checks,
\* panics.
Enter ==
    /\ frames # <<>>
    /\ Top.stage = "enter"
    /\ LET f == Top
           key == Game[f.old_board].zobrist_key
           slot == transposition_table.table[tt_index(transposition_table, key)]
           entry == tt_get(transposition_table, key)
           in_check_ == pos_in_check(f.old_board)
           static_eval == evaluate_board(f.old_board)
           cleared == [searcher.search_stack EXCEPT ![f.ply + 2].killer_move = NoMove]
           stack == [cleared EXCEPT ![f.ply].static_eval = static_eval]
           current_ply == static_eval
           two_ply_back == IF f.ply < 2 THEN WORST_EVAL ELSE stack[f.ply - 2].static_eval
           improving == ~in_check_ /\ current_ply > two_ply_back
           margin == RFP_THRESHOLD * (f.depth - (IF improving THEN 1 ELSE 0))
           nmp_depth == (f.depth - 3) - (f.depth \div 3)
           probe(how) == [pv |-> f.pv, ply |-> f.ply, depth |-> f.depth, alpha |-> f.alpha,
                          beta |-> f.beta, zobrist_key |-> key,
                          half_move_counter |-> Game[f.old_board].half_move_counter,
                          repetitions |-> repetitions(searcher.past_boards, key),
                          entry |-> slot, how |-> how]
           g == [f EXCEPT !.in_check = in_check_, !.improving = improving]
           gh == [ghost EXCEPT !.killers = @ \ {f.ply + 2}]
           quiescence == quiescence_search(searcher.move_sorter, transposition_table,
                                           f.old_board, f.ply, f.alpha, f.beta)
       IN  IF StackOverrun(f.ply)
           THEN /\ Panic
                /\ ghost' = [ghost EXCEPT !.probe = probe("overrun")]
                /\ UNCHANGED searcher
           ELSE IF is_draw(searcher, f.old_board, f.ply)
           THEN /\ Leave(0)
                /\ searcher' = [searcher EXCEPT !.search_stack = cleared]
                /\ ghost' = Left([gh EXCEPT !.probe = probe("draw")], f, "draw", 0)
                /\ UNCHANGED driver
           ELSE IF f.depth = 0
           THEN /\ Leave(quiescence)
                /\ searcher' = [searcher EXCEPT !.search_stack = cleared]
                /\ ghost' = Left([gh EXCEPT !.probe = probe("quiescence")], f,
                                 "quiescence", quiescence)
                /\ UNCHANGED driver
           ELSE IF tt_probe(f.pv, f.ply, f.depth, entry, key) /\ tt_cutoff(entry, f.alpha, f.beta)
           THEN /\ Leave(entry.evaluation)
                /\ searcher' = [searcher EXCEPT !.search_stack = cleared]
                /\ ghost' = Left([gh EXCEPT !.probe = probe("table")], f, "table",
                                 entry.evaluation)
                /\ UNCHANGED driver
           ELSE IF ~in_check_ /\ f.ply < 2 /\ overflow_checks
           THEN /\ Panic
                /\ searcher' = [searcher EXCEPT !.search_stack = stack]
                /\ ghost' = [gh EXCEPT !.probe = probe("panic")]
           ELSE IF ~f.pv /\ ~in_check_ /\ f.depth < RFP_DEPTH /\ static_eval - margin >= f.beta
           THEN /\ Leave(static_eval)
                /\ searcher' = [searcher EXCEPT !.search_stack = stack]
                /\ ghost' = Left([gh EXCEPT !.probe = probe("rfp")], f, "rfp", static_eval)
                /\ UNCHANGED driver
           ELSE IF ~f.pv /\ ~in_check_ /\ static_eval >= f.beta
           THEN /\ frames' = Call([g EXCEPT !.stage = "nmp"],
                                  NewFrame(FALSE, make_null_move(f.old_board),
                                           IF nmp_depth > 0 THEN nmp_depth ELSE 0,
                                           f.ply + 1, 0 - f.beta, 0 - f.alpha))
                /\ ret' = NoRet
                /\ searcher' = [searcher EXCEPT !.search_stack = stack]
                /\ ghost' = [gh EXCEPT !.probe = probe("nmp")]
                /\ UNCHANGED driver
           ELSE /\ frames' = SetTop(start_moves(g, searcher, transposition_table))
                /\ ret' = NoRet
                /\ searcher' = [searcher EXCEPT !.search_stack = stack]
                /\ ghost' = [gh EXCEPT !.probe = probe("moves")]
                /\ UNCHANGED driver
    /\ UNCHANGED <<frontEnd, stop_signal, hard_expired, overflow_checks, position,
                   transposition_table, out, notEngine>>

\* search, lines 194-198: the null move search has returned
NullMoveReturn ==
    /\ frames # <<>>
    /\ Top.stage = "nmp"
    /\ ret.set
    /\ LET f == Top
           nmp_score == 0 - ret.value
       IN  IF nmp_score >= f.beta
           THEN /\ Leave(nmp_score)
                /\ ghost' = Left(ghost, f, "nmp", nmp_score)
           ELSE /\ frames' = SetTop(start_moves(f, searcher, transposition_table))
                /\ ret' = NoRet
                /\ UNCHANGED ghost
    /\ UNCHANGED <<frontEnd, stop_signal, hard_expired, overflow_checks, position, searcher,
                   transposition_table, driver, out, notEngine>>

\* a late move pruning that starts at the first move of a node of depth 1
late_move_pruned_from_first(f, is_quiet) ==
    /\ ~f.pv /\ is_quiet /\ f.depth <= 5
    /\ f.num_moves >= (8 * (f.depth - 1)) \div (2 - (IF f.improving THEN 1 ELSE 0))

\* the test of line 214
late_move_pruned(f, is_quiet) ==
    /\ ~f.pv /\ is_quiet /\ f.depth <= 5
    /\ f.num_moves >= (8 * f.depth) \div (2 - (IF f.improving THEN 1 ELSE 0))

\* line 231: whether LMR_REDUCTION_TABLE is consulted; the table and
\* LMR_MOVE_THRESHOLD are any table and any threshold
may_reduce(f, num_moves) == ~f.pv /\ ~f.in_check /\ num_moves >= 2

\* line 238: (depth as f32 - 1.0 - reduction + extension as f32).max(0.0) as usize
reduced_depth(depth, reduction, extension) ==
    IF depth - 1 - reduction + extension > 0 THEN depth - 1 - reduction + extension ELSE 0

\* search, lines 210-238: the next move of the loop is skipped, or made and
\* searched
NextMove ==
    /\ frames # <<>>
    /\ Top.stage = "moves"
    /\ Top.next <= Len(Top.moves)
    /\ LET f == Top
           piece_move == f.moves[f.next]
           is_quiet == piece_move.quiet
           num_moves == f.num_moves + 1
           extension == IF pos_in_check(piece_move.to) THEN 1 ELSE 0
       IN  IF late_move_pruned(f, is_quiet) \/ piece_move.to = 0
           THEN frames' = SetTop([f EXCEPT !.next = @ + 1])
           ELSE IF num_moves = 1
           THEN frames' = Call([f EXCEPT !.stage = "child", !.num_moves = num_moves,
                                         !.null_window = FALSE, !.reduction = 0,
                                         !.extension = extension],
                               NewFrame(f.pv, piece_move.to, f.depth - 1 + extension,
                                        f.ply + 1, 0 - f.beta, 0 - f.alpha))
           ELSE \E reduction \in 0 .. MaxReduction :
                   /\ reduction > 0 => may_reduce(f, num_moves)
                   /\ frames' = Call([f EXCEPT !.stage = "child", !.num_moves = num_moves,
                                               !.null_window = TRUE, !.reduction = reduction,
                                               !.extension = extension],
                                     NewFrame(FALSE, piece_move.to,
                                              reduced_depth(f.depth, reduction, extension),
                                              f.ply + 1, 0 - f.alpha - 1, 0 - f.alpha))
    /\ ret' = NoRet
    /\ UNCHANGED <<frontEnd, stop_signal, hard_expired, overflow_checks, position, searcher,
                   transposition_table, driver, out, ghost, notEngine>>

\* lines 268-273: the bonus to the cutoff move, the malus to the quiet moves
\* tried before it
RECURSIVE history_malus(_, _, _, _, _)
history_malus(history_table, old_board, quiet_moves, i, bonus) ==
    IF i > Len(quiet_moves) THEN history_table
    ELSE history_malus(update_history(history_table, old_board, quiet_moves[i], 0 - bonus),
                       old_board, quiet_moves, i + 1, bonus)

history_cutoff(history_table, old_board, piece_move, quiet_moves, depth) ==
    history_malus(update_history(history_table, old_board, piece_move, depth * depth),
                  old_board, quiet_moves, 1, depth * depth)

\* Searcher::update_killer
update_killer(search_stack, killer_move, ply) ==
    [search_stack EXCEPT ![ply].killer_move = killer_move]

\* search, lines 240-286: a search of the move has returned
ChildReturn ==
    /\ frames # <<>>
    /\ Top.stage = "child"
    /\ ret.set
    /\ LET f == Top
           piece_move == f.moves[f.next]
           is_quiet == piece_move.quiet
           score == 0 - ret.value
           best_score == IF score > f.best_score THEN score ELSE f.best_score
           raised == score > f.alpha
           cutoff == score >= f.beta
           g == [f EXCEPT !.best_score = best_score,
                          !.alpha = IF raised THEN score ELSE @,
                          !.best_move = IF raised THEN piece_move.move ELSE @,
                          !.evaluation_type = IF cutoff THEN "LowerBound"
                                              ELSE IF raised THEN "Exact" ELSE @,
                          !.quiet_moves = IF ~cutoff /\ is_quiet
                                          THEN Append(@, piece_move.move) ELSE @,
                          !.next = IF cutoff THEN @ ELSE @ + 1,
                          !.stage = IF cutoff THEN "finish" ELSE "moves"]
           published == IF raised /\ f.ply = 0 THEN piece_move.move ELSE searcher.best_move
       IN  IF f.null_window /\ score > f.alpha /\ (score < f.beta \/ f.reduction > 0)
           THEN /\ frames' = Call([f EXCEPT !.null_window = FALSE],
                                  NewFrame(f.pv, piece_move.to, f.depth - 1 + f.extension,
                                           f.ply + 1, 0 - f.beta, 0 - f.alpha))
                /\ ret' = NoRet
                /\ UNCHANGED <<searcher, ghost>>
           ELSE IF search_cancelled
           THEN /\ Leave(f.best_score)
                /\ ghost' = Left([Observed(ghost, TRUE) EXCEPT !.truncated = TRUE], f,
                                 "cancel", f.best_score)
                /\ UNCHANGED searcher
           ELSE /\ frames' = SetTop(g)
                /\ ret' = NoRet
                /\ searcher' =
                      [searcher EXCEPT
                          !.best_move = published,
                          !.move_sorter.history_table =
                              IF cutoff /\ is_quiet
                              THEN history_cutoff(@, f.old_board, piece_move.move,
                                                  f.quiet_moves, f.depth)
                              ELSE @,
                          !.search_stack =
                              IF cutoff /\ is_quiet
                              THEN update_killer(@, piece_move.move, f.ply) ELSE @]
                /\ ghost' = [ghost EXCEPT
                                !.published = IF raised /\ f.ply = 0 THEN piece_move.move ELSE @,
                                !.killers = IF cutoff /\ is_quiet THEN @ \cup {f.ply} ELSE @]
    /\ UNCHANGED <<frontEnd, stop_signal, hard_expired, overflow_checks, position,
                   transposition_table, driver, out, notEngine>>

\* line 290: the score of a checkmate found at a ply
mate_score(ply) == SHALLOWEST_PROVEN_LOSS + ply

\* search, lines 288-300: the loop is over
Finish ==
    /\ frames # <<>>
    /\ \/ Top.stage = "finish"
       \/ Top.stage = "moves" /\ Top.next > Len(Top.moves)
    /\ LET f == Top
           key == Game[f.old_board].zobrist_key
           value == IF f.num_moves > 0 THEN f.best_score
                    ELSE IF pos_in_check(f.old_board) THEN mate_score(f.ply)
                    ELSE 0
           stored == f.num_moves > 0 /\ ~search_cancelled
       IN  /\ Leave(value)
           /\ transposition_table' =
                 IF stored
                 THEN tt_store(transposition_table, key,
                               TTEntry(key, f.depth, f.best_score, f.evaluation_type,
                                       f.best_move))
                 ELSE transposition_table
           /\ ghost' = Left([Observed(ghost, f.num_moves > 0 /\ search_cancelled) EXCEPT
                                 !.root_result =
                                     IF f.ply = 0
                                     THEN [best_move |-> f.best_move, score |-> value]
                                     ELSE @],
                            f, "loop", value)
    /\ UNCHANGED <<frontEnd, stop_signal, hard_expired, overflow_checks, position, searcher,
                   driver, out, notEngine>>

\* handle_board, line 177: search::<true> has returned to the depth branch
DepthSearchReturn ==
    /\ driver.stage = "search" /\ ~driver.timed
    /\ frames = <<>> /\ ret.set
    /\ driver' = [driver EXCEPT !.stage = "reply", !.eval = ret.value]
    /\ ret' = NoRet
    /\ ghost' = [ghost EXCEPT
                    !.completed = IF ghost.truncated THEN @
                                  ELSE [depth |-> searcher.max_depth,
                                        best_move |-> ghost.root_result.best_move,
                                        score |-> ghost.root_result.score]]
    /\ UNCHANGED <<frontEnd, stop_signal, hard_expired, overflow_checks, position, searcher,
                   transposition_table, frames, out, notEngine>>

\* aspiration_windows, lines 127-141: search::<true> has returned
AspirationReturn ==
    /\ driver.stage = "search" /\ driver.timed
    /\ frames = <<>> /\ ret.set
    /\ LET search_score == ret.value
           low == search_score <= driver.alpha
           high == search_score >= driver.beta
           alpha == IF low THEN driver.alpha - driver.delta ELSE driver.alpha
           beta == IF ~low /\ high THEN driver.beta + driver.delta ELSE driver.beta
       IN  IF search_cancelled \/ (~low /\ ~high)
           THEN /\ driver' = [driver EXCEPT !.stage = "check", !.score = search_score]
                /\ frames' = <<>>
           ELSE /\ driver' = [driver EXCEPT !.alpha = alpha, !.beta = beta, !.delta = @ * 2]
                /\ frames' = <<NewFrame(TRUE, position, searcher.depth, 0, alpha, beta)>>
    /\ ret' = NoRet
    /\ ghost' = Observed(ghost, search_cancelled)
    /\ UNCHANGED <<frontEnd, stop_signal, hard_expired, overflow_checks, position, searcher,
                   transposition_table, out, notEngine>>

\* search_timed, lines 103-111: the iteration is accepted, or the loop is
\* left
IterationCheck ==
    /\ driver.stage = "check"
    /\ IF search_cancelled
       THEN /\ searcher' = search_timed_result(searcher, driver.best_move)
            /\ driver' = [driver EXCEPT !.stage = "reply"]
            /\ ghost' = Observed(ghost, TRUE)
       ELSE /\ driver' = [driver EXCEPT !.stage = "loop", !.eval = driver.score,
                                        !.best_move = searcher.best_move]
            /\ ghost' = [ghost EXCEPT
                            !.completed = [depth |-> searcher.depth,
                                           best_move |-> ghost.root_result.best_move,
                                           score |-> ghost.root_result.score]]
            /\ UNCHANGED searcher
    /\ UNCHANGED <<frontEnd, stop_signal, hard_expired, overflow_checks, position,
                   transposition_table, frames, ret, out, notEngine>>

\* the position make_move(best_move) leads to
played(old_board, best_move) ==
    LET k == CHOOSE k \in 1 .. Len(Game[old_board].moves) :
                 Game[old_board].moves[k].move = best_move
    IN  Game[old_board].moves[k].to

\* handle_board, lines 189-211: the move is played and sent, or the thread
\* panics
Reply ==
    /\ driver.stage = "reply"
    /\ IF searcher.best_move # NoMove
       THEN LET new == played(position, searcher.best_move)
                past == IF Game[new].half_move_counter = 0 THEN <<>> ELSE searcher.past_boards
            IN  /\ position' = new
                /\ searcher' = [searcher EXCEPT
                                   !.past_boards = Append(past, Game[new].zobrist_key)]
                /\ out' = [bestmove |-> searcher.best_move, eval |-> driver.eval,
                           timed |-> driver.timed, cancelled |-> ghost.cancel_seen,
                           truncated |-> ghost.truncated, completed |-> ghost.completed,
                           published |-> ghost.published, root |-> position,
                           infinite |-> out.infinite + (IF driver.infinite THEN 1 ELSE 0)]
                /\ driver' = DriverIdle
                /\ ghost' = [ghost EXCEPT !.handled = "Reply",
                                          !.fresh = IF Game[new].half_move_counter = 0
                                                    THEN 1 ELSE @ + 1]
       ELSE /\ driver' = [driver EXCEPT !.stage = "panic"]
            /\ ghost' = [ghost EXCEPT !.handled = "Reply"]
            /\ UNCHANGED <<position, searcher, out>>
    /\ UNCHANGED <<frontEnd, stop_signal, hard_expired, overflow_checks, transposition_table,
                   frames, ret, notEngine>>

EngineNext ==
    \/ UciNewGameSend
    \/ UciNewGameStop
    \/ UciStop
    \/ UciGoMovetime
    \/ UciGoDepth
    \/ UciGoInfinite
    \/ UciPosition
    \/ HardTimeExpires
    \/ HandleNewGame
    \/ HandleSetPosition
    \/ HandleForceMove
    \/ StartSearch
    \/ LoopTop
    \/ Enter
    \/ NullMoveReturn
    \/ NextMove
    \/ ChildReturn
    \/ Finish
    \/ DepthSearchReturn
    \/ AspirationReturn
    \/ IterationCheck
    \/ Reply

SpecEngine == EngineInit /\ [][EngineNext]_vars

\* ---- `go infinite`, `go depth` and `stop`: the front end reads these
\* commands only, and the thread of handle_board is scheduled whenever it
\* can take a step

SearchThreadStep ==
    \/ StartSearch
    \/ LoopTop
    \/ Enter
    \/ NullMoveReturn
    \/ NextMove
    \/ ChildReturn
    \/ Finish
    \/ DepthSearchReturn
    \/ AspirationReturn
    \/ IterationCheck
    \/ Reply

InfiniteNext ==
    \/ UciGoInfinite
    \/ UciGoDepth
    \/ UciStop
    \/ SearchThreadStep

SpecInfinite == EngineInit /\ [][InfiniteNext]_vars /\ WF_vars(SearchThreadStep)

\* ---- a game replayed: the front end reads `position startpos` and
\* `go depth MAX_DEPTH` only, MaxReplays commands in all

ReplayPosition ==
    /\ fe_pc = "read" /\ stdin < MaxReplays
    /\ stdin' = stdin + 1
    /\ Send(<<Message("SetPosition", -1, -1, 1, NoUciMove)>>, "read")
    /\ UNCHANGED <<heard, stop_signal, hard_expired, searchThread, notEngine>>

ReplayGo ==
    /\ fe_pc = "read" /\ stdin < MaxReplays
    /\ stdin' = stdin + 1
    /\ Send(<<Message("StartSearch", -1, MAX_DEPTH, 0, NoUciMove)>>, "read")
    /\ UNCHANGED <<heard, stop_signal, hard_expired, searchThread, notEngine>>

ReplayNext ==
    \/ ReplayPosition
    \/ ReplayGo
    \/ HandleSetPosition
    \/ StartSearch
    \/ Enter
    \/ NullMoveReturn
    \/ NextMove
    \/ ChildReturn
    \/ Finish
    \/ DepthSearchReturn
    \/ Reply

SpecReplay == EngineInit /\ [][ReplayNext]_vars

\* ---- the history table under update_history alone: the entry of the first
\* move of the start position, updated with bonuses of the whole i32 range
\* and with the depth * depth of a cutoff

I32_MIN == -2147483647 - 1

I32_MAX == 2147483647

\* deepest cutoff whose bonus is tried
MaxBonusDepth == 3

HistoryBonuses ==
    {I32_MIN, -16385, -16384, -8192, -1, 0, 1, 8192, 16384, 16385, I32_MAX}
    \cup {d * d : d \in 1 .. MaxBonusDepth} \cup {0 - d * d : d \in 1 .. MaxBonusDepth}

\* self.move_sorter.update_history(old_board, *piece_move, bonus)
UpdateHistory ==
    /\ \E bonus \in HistoryBonuses :
          searcher' = [searcher EXCEPT !.move_sorter.history_table =
                          update_history(@, 1, Game[1].moves[1].move, bonus)]
    /\ UNCHANGED <<frontEnd, stop_signal, hard_expired, overflow_checks, position,
                   transposition_table, driver, frames, ret, out, ghost, notEngine>>

\* MoveSorter::new
HistoryInit == BoardIdle /\ TTIdle /\ EngineIdle

SpecHistory == HistoryInit /\ [][UpdateHistory]_vars

\* ------------------------------------------------------------------------
\* Properties of the engine.
\* ------------------------------------------------------------------------

\* C1: when search_timed has returned after a read of search_cancelled
\* gave true, the move and the score left as the answer, and those sent,
\* are the ones of the latest iteration that was accepted (none and 0
\* when no iteration was).
C1_CancelledKeepsCompleted ==
    /\ (driver.stage = "reply" /\ driver.timed /\ ghost.cancel_seen) =>
          /\ searcher.best_move = ghost.completed.best_move
          /\ driver.eval = ghost.completed.score
    /\ (out.timed /\ out.cancelled) =>
          /\ out.bestmove = out.completed.best_move
          /\ out.eval = out.completed.score

\* a timed search was cancelled in an iteration whose root had published
\* another move than the one of the last accepted iteration, and the
\* accepted one was sent
C1_Witness ==
    /\ out.timed /\ out.cancelled
    /\ out.completed.depth >= 1
    /\ out.published # out.completed.best_move
    /\ out.bestmove = out.completed.best_move

\* C2: a bestmove sent by the `go depth` path after a node of the search
\* returned from its loop on cancellation is the move of a search that ran
\* to completion.
C2_DepthReplyCompleted ==
    (~out.timed /\ out.truncated) => out.bestmove = out.completed.best_move

\* the conditions of the cutoff contract on the node last entered
ProbeConditions ==
    LET p == ghost.probe IN
    /\ ~p.pv /\ p.ply > 0
    /\ p.entry # NoEntry
    /\ p.entry.zobrist_key = p.zobrist_key
    /\ p.entry.depth >= p.depth
    /\ \/ p.entry.evaluation_type = "Exact"
       \/ p.entry.evaluation_type = "UpperBound" /\ p.entry.evaluation <= p.alpha
       \/ p.entry.evaluation_type = "LowerBound" /\ p.entry.evaluation >= p.beta

\* the node last entered is not a draw by the test of line 148 and is
\* searched to depth 1 at least
ProbeReached ==
    LET p == ghost.probe IN
    /\ ~(p.ply > 0 /\ (p.half_move_counter >= 100 \/ p.repetitions = 2))
    /\ p.depth >= 1

\* C3 (amended): a node that is not drawn by the fifty-move or repetition
\* test and has depth >= 1 returns the stored evaluation from the table if
\* and only if the conditions of the cutoff contract hold; no other node
\* returns from the table.
C3_TableCutoff ==
    ghost.probe.how # "none" =>
        (ghost.probe.how = "table" <=> (ProbeReached /\ ProbeConditions))

\* C3 (as stated): a node returns the stored evaluation from the table if
\* and only if the conditions of the cutoff contract hold.
C3_TableCutoffAnyNode ==
    ghost.probe.how # "none" => (ghost.probe.how = "table" <=> ProbeConditions)

\* a node has returned from the table on an entry of a bound
C3_Witness ==
    /\ ghost.probe.how = "table"
    /\ ProbeConditions
    /\ ret = Return(ghost.probe.entry.evaluation)

\* C11: a node that has passed line 146 returns at the test of line 148
\* exactly when its ply is above 0 and its halfmove clock is at least 100
\* or its key is twice in the repetition list; it then returns 0, and the
\* table is as it was.  A node of ply 0 never returns there.
C11_DrawFirst ==
    LET p == ghost.probe IN
    /\ p.how \notin {"none", "overrun"} =>
          (p.how = "draw" <=> (p.ply > 0 /\ (p.half_move_counter >= 100 \/ p.repetitions = 2)))
    /\ ghost.left.how = "draw" => ghost.left.value = 0
    /\ (p.how = "draw" /\ ret.set /\ ghost.left.how = "draw") =>
          /\ ret = Return(0)
          /\ transposition_table.table[tt_index(transposition_table, p.zobrist_key)] = p.entry
    /\ p.ply = 0 => p.how # "draw"

\* a node above the root has returned 0 on a key that is twice in the
\* repetition list, its halfmove clock being below 100
C11_Witness ==
    /\ ghost.probe.how = "draw" /\ ghost.probe.ply > 0
    /\ ghost.probe.repetitions = 2 /\ ghost.probe.half_move_counter < 100
    /\ ghost.left.how = "draw" /\ ret = Return(0)

\* make_move gives a board for no move of the position
NoLegalMove(old_board) ==
    \A k \in 1 .. Len(Game[old_board].moves) : Game[old_board].moves[k].to = 0

\* the node that returned last ran its move loop to the end or to a cutoff
LoopLeft == ghost.left.how = "loop"

\* C12: a node that leaves its move loop has counted no move if and only
\* if its position has no legal move; if it has none and the side to move
\* is in check the node returns SHALLOWEST_PROVEN_LOSS + ply; and the score
\* of a mate grows strictly with the ply it is found at.  Late move
\* pruning does not skip a quiet move of a node that has counted none.
C12_MateScoring ==
    LET l == ghost.left IN
    /\ LoopLeft =>
          /\ l.depth >= 1
          /\ l.num_moves = 0 <=> NoLegalMove(l.old_board)
          /\ (NoLegalMove(l.old_board) /\ pos_in_check(l.old_board)) =>
                l.value = SHALLOWEST_PROVEN_LOSS + l.ply
    /\ \A p \in Plies, q \in Plies : p < q => mate_score(p) < mate_score(q)
    /\ \A d \in 1 .. 5, i \in BOOLEAN :
          ~late_move_pruned([pv |-> FALSE, depth |-> d, improving |-> i, num_moves |-> 0], TRUE)

\* a checkmated node above the root has returned its mate score
C12_Witness ==
    /\ LoopLeft /\ ghost.left.ply >= 1
    /\ NoLegalMove(ghost.left.old_board) /\ pos_in_check(ghost.left.old_board)
    /\ ret = Return(SHALLOWEST_PROVEN_LOSS + ghost.left.ply)

\* the node that returned last, uncancelled, was searched at depth >= 1 on a
\* position with no legal move and its side to move not in check
StalemateLeft ==
    /\ ghost.left.how \notin {"none", "cancel"}
    /\ ghost.left.depth >= 1
    /\ NoLegalMove(ghost.left.old_board)
    /\ ~pos_in_check(ghost.left.old_board)

\* C13: a node searched at depth >= 1 whose side to move is not in check
\* and has no legal move returns 0.
C13_StalemateDraw == StalemateLeft => ghost.left.value = 0

\* C14: a node of a search in which no node returned on cancellation
\* returns a score in [-SHALLOWEST_PROVEN_WIN, SHALLOWEST_PROVEN_WIN], and a
\* checkmated node a score of magnitude at least SHALLOWEST_PROVEN_WIN -
\* MAX_DEPTH.
C14_ScoreRange ==
    LET l == ghost.left IN
    (l.how \notin {"none", "cancel"} /\ ~ghost.truncated) =>
        /\ SHALLOWEST_PROVEN_LOSS <= l.value /\ l.value <= SHALLOWEST_PROVEN_WIN
        /\ (LoopLeft /\ NoLegalMove(l.old_board) /\ pos_in_check(l.old_board)) =>
              l.value <= DEEPEST_PROVEN_LOSS

\* C15: once a `position ... moves` command with a move that does not
\* parse, starts from an empty tile or is not legal has been handled, the
\* thread of handle_board has not panicked, the front end has not, and the
\* position is the one before the move.
C15_InvalidMoveRejected ==
    ghost.forced.how = "invalid" =>
        /\ driver.stage # "panic"
        /\ fe_pc # "panic"
        /\ position = ghost.forced.before

\* C16: once the handler of StartSearch has come to its reply on a
\* position with no legal move, it is back at rest and the front end has
\* not panicked.
C16_NoLegalRoot ==
    (ghost.handled = "Reply" /\ NoLegalMove(ghost.searched)) =>
        /\ driver.stage = "idle"
        /\ fe_pc # "panic"

\* C17: the repetition list holds no more positions than the game has
\* reached since its last irreversible move, whether the engine played the
\* move or `position ... moves` applied it, and no more than 100.
C17_RepetitionHistory ==
    /\ Len(searcher.past_boards) <= ghost.fresh
    /\ Len(searcher.past_boards) <= 100

\* C18: the root of the running iteration of a timed search has the depth
\* of the iteration's number, and a depth of searcher.max_depth at most.
C18_IterationDepths ==
    (driver.timed /\ frames # <<>>) =>
        /\ frames[1].depth = driver.iterations
        /\ frames[1].depth = searcher.depth
        /\ frames[1].depth <= searcher.max_depth

\* the search of a `go infinite` is running
InfiniteRunning == driver.infinite /\ driver.stage \in {"loop", "search", "check", "reply"}

\* C19: whenever `stop` has been read after the n-th `go infinite` and the
\* search of a `go infinite` is running, the bestmove of the n-th is sent
\* in the end.
C19_StopNotLost ==
    \A n \in 1 .. MaxCommands :
        (heard.stop = n /\ InfiniteRunning) ~> (out.infinite >= n)

\* C20: the node last entered has ply + 2, the largest index it uses on
\* search_stack, below MAX_DEPTH + 4.
C20_StackBounds ==
    ghost.probe.how # "none" => ghost.probe.ply + 2 < MAX_DEPTH + 4

InI32(x) == I32_MIN <= x /\ x <= I32_MAX

\* C25: every entry of the history table stays within [-16384, 16384], and
\* for every bonus the values the next update computes in i32 (the clamped
\* bonus, its absolute value, the product with the old value, the quotient,
\* the difference and the sum) are all within the i32 range.
C25_HistoryBound ==
    LET table == searcher.move_sorter.history_table IN
    \A i \in HistoryIndex :
        /\ -16384 <= table[i] /\ table[i] <= 16384
        /\ \A bonus \in HistoryBonuses :
               LET clamped_bonus == Clamp(bonus, -16384, 16384)
                   product == table[i] * Abs(clamped_bonus)
                   quotient == Quot(product, 16384)
               IN  /\ InI32(Abs(clamped_bonus)) /\ InI32(product) /\ InI32(quotient)
                   /\ InI32(clamped_bonus - quotient)
                   /\ InI32(table[i] + clamped_bonus - quotient)

\* the entry updated has been driven to the lower end of the range
C25_Witness ==
    searcher.move_sorter.history_table[<<"White", Game[1].moves[1].move.initial,
                                         Game[1].moves[1].move.end>>] = -16384

\* the hash move order_moves passes to score_move at a node
HashMove(tt, old_board) ==
    LET entry == tt_get(tt, Game[old_board].zobrist_key)
    IN  IF entry # NoEntry THEN entry.best_move ELSE NoMove

\* C27: when moves are ordered at a ply whose killer move was stored by a
\* cutoff of this search and has not been cleared since, the killer move, if
\* it is a quiet move of the node and not its hash move, is scored KILLER_MOVE
\* plus its history, above every other quiet move and below every capture of
\* the good-capture bucket.
C27_KillerOrdering ==
    (frames # <<>> /\ Top.stage = "moves" /\ Top.next = 1 /\ Top.ply \in ghost.killers) =>
        LET f == Top
            killer == searcher.search_stack[f.ply].killer_move
            hash_move == HashMove(transposition_table, f.old_board)
            score(m) == score_move(searcher.move_sorter, f.old_board, m, f.ply, hash_move, FALSE)
            ordered == {f.moves[i] : i \in 1 .. Len(f.moves)}
        IN  \A m \in ordered :
                (m.quiet /\ m.move = killer /\ m.move # hash_move) =>
                    /\ score(m) = KILLER_MOVE + get_history(searcher.move_sorter.history_table,
                                                            f.old_board, m.move)
                    /\ \A n \in ordered \ {m} :
                           /\ (n.quiet /\ n.move # hash_move) => score(n) < score(m)
                           /\ (~n.quiet /\ n.move # hash_move /\ score(n) >= GOOD_CAPTURE)
                                  => score(m) < score(n)

\* the improving flag of the spec for the i-th node of the current path: not
\* in check, and a static evaluation strictly greater than the one of the node
\* two plies earlier on the path; false where no such node exists
Improving(i) ==
    /\ ~pos_in_check(frames[i].old_board)
    /\ IF i >= 3
       THEN evaluate_board(frames[i].old_board) > evaluate_board(frames[i - 2].old_board)
       ELSE FALSE

\* C29: every node of the current path that has computed its improving flag
\* holds the flag of the spec, and the computation of the flag has not ended
\* the search thread with an arithmetic error.
C29_Improving ==
    /\ ghost.probe.how # "panic"
    /\ \A i \in 1 .. Len(frames) :
           frames[i].stage # "enter" => frames[i].improving = Improving(i)

\* C5: after the NewGame command has been handled the table has no entry,
\* the repetition list is empty, every history value is 0 and no killer
\* move is kept at any ply.
C5_NewGameClears ==
    ghost.handled = "NewGame" =>
        /\ \A i \in DOMAIN transposition_table.table : transposition_table.table[i] = NoEntry
        /\ searcher.past_boards = <<>>
        /\ \A i \in HistoryIndex : searcher.move_sorter.history_table[i] = 0
        /\ \A p \in Plies :
              /\ searcher.search_stack[p].killer_move = NoMove
              /\ searcher.move_sorter.killer_table[p] = NoMove

====
